---------------------------- MODULE Spec2Model ----------------------------
(***************************************************************************)
(* A model of the API description normaliser of LivelyAPI                  *)
(* (src/src/lib/api-analyzer.ts, class APIAnalyzer).                       *)
(*                                                                         *)
(* Strings are TLA+ strings and are processed character by character.      *)
(* A JavaScript value is a record tagged by its type (field t); an object  *)
(* is the sequence of its own enumerable properties in property order.     *)
(* The input of analyzeAPI is a string: either free text, kept as the      *)
(* string itself, or the text of a JSON document, kept as the syntax tree  *)
(* of that text (members in the order they are written), from which the    *)
(* text is produced by Serialize and the value by JSONparse.               *)
(***************************************************************************)
EXTENDS Integers, Sequences, FiniteSets, TLC

(***************************************************************************)
(* Bounds of the model.                                                    *)
(***************************************************************************)
\* words after the optional scheme prefix of a free-text input
MaxWords == 2
\* path entries of the documents that vary the shape of `paths`
MaxPaths == 2
\* method entries of one path item
MaxMethods == 2
\* the number of calls of analyzeAPI in flight at once
MaxCalls == 2

(***************************************************************************)
(* JavaScript values.                                                      *)
(***************************************************************************)
JUndef == [t |-> "undefined"]
JNull == [t |-> "null"]
JNaN == [t |-> "NaN"]
JBool(b) == [t |-> "bool", b |-> b]
JNum(n) == [t |-> "num", n |-> n]
JStr(s) == [t |-> "str", s |-> s]
JArr(a) == [t |-> "arr", a |-> a]
JObj(e) == [t |-> "obj", e |-> e]
\* one property of an object: key k, value v
P(k, v) == [k |-> k, v |-> v]

\* ToBoolean: what `if (v)`, `v || w` and `!v` test
Truthy(v) ==
  CASE v.t = "undefined" -> FALSE
    [] v.t = "null" -> FALSE
    [] v.t = "NaN" -> FALSE
    [] v.t = "bool" -> v.b
    [] v.t = "num" -> v.n # 0
    [] v.t = "str" -> v.s # ""
    [] OTHER -> TRUE

\* a || b
Or(a, b) == IF Truthy(a) THEN a ELSE b

\* null and undefined: a property read of them throws a TypeError
Nullish(v) == v.t \in {"undefined", "null"}

(***************************************************************************)
(* Strings, character by character.                                        *)
(***************************************************************************)
CharAt(s, i) == SubSeq(s, i, i)

UpperAlpha == "ABCDEFGHIJKLMNOPQRSTUVWXYZ"
LowerAlpha == "abcdefghijklmnopqrstuvwxyz"
Digits == "0123456789"

\* the position of character c in string s, 0 when it does not occur
IndexOfChar(s, c) ==
  IF \E i \in 1..Len(s) : CharAt(s, i) = c
  THEN CHOOSE i \in 1..Len(s) : CharAt(s, i) = c /\ \A j \in 1..(i - 1) : CharAt(s, j) # c
  ELSE 0

\* the characters of each class, and the case mappings, as tables
UpperChars == {CharAt(UpperAlpha, i) : i \in 1..Len(UpperAlpha)}
LowerChars == {CharAt(LowerAlpha, i) : i \in 1..Len(LowerAlpha)}
DigitChars == {CharAt(Digits, i) : i \in 1..Len(Digits)}
ToLower == [c \in UpperChars |-> CharAt(LowerAlpha, IndexOfChar(UpperAlpha, c))]
ToUpper == [c \in LowerChars |-> CharAt(UpperAlpha, IndexOfChar(LowerAlpha, c))]
DigitValues == [c \in DigitChars |-> IndexOfChar(Digits, c) - 1]

IsUpper(c) == c \in UpperChars
IsLower(c) == c \in LowerChars
IsAlpha(c) == IsUpper(c) \/ IsLower(c)
IsDigit(c) == c \in DigitChars
DigitValue(c) == DigitValues[c]

LowerChar(c) == IF IsUpper(c) THEN ToLower[c] ELSE c
UpperChar(c) == IF IsLower(c) THEN ToUpper[c] ELSE c

RECURSIVE toLowerCase(_)
\* String.prototype.toLowerCase, a character at a time (the string is split in
\* halves down to its characters)
toLowerCase(s) ==
  IF Len(s) <= 1 THEN LowerChar(s)
  ELSE toLowerCase(SubSeq(s, 1, Len(s) \div 2))
       \o toLowerCase(SubSeq(s, Len(s) \div 2 + 1, Len(s)))

RECURSIVE toUpperCase(_)
\* String.prototype.toUpperCase
toUpperCase(s) ==
  IF Len(s) <= 1 THEN UpperChar(s)
  ELSE toUpperCase(SubSeq(s, 1, Len(s) \div 2))
       \o toUpperCase(SubSeq(s, Len(s) \div 2 + 1, Len(s)))

\* String.prototype.includes: sub occurs in s as a substring
includes(s, sub) ==
  \E i \in 1..(Len(s) - Len(sub) + 1) : SubSeq(s, i, i + Len(sub) - 1) = sub

\* Array.prototype.includes on a sequence of values
arrayIncludes(a, v) == \E i \in 1..Len(a) : a[i] = v


RECURSIVE StrToNat(_)
\* the number a string of decimal digits denotes
StrToNat(s) ==
  IF s = "" THEN 0
  ELSE 10 * StrToNat(SubSeq(s, 1, Len(s) - 1)) + DigitValue(CharAt(s, Len(s)))

AllDigits(s) == \A i \in 1..Len(s) : IsDigit(CharAt(s, i))

\* whitespace that parseInt and the URL parser strip (of the characters the model uses)
IsSpace(c) == c = " "

\* the last position of the run of digits of s that starts at position from
\* (from - 1 when that position holds no digit)
DigitsEnd(s, from) ==
  IF \E i \in from..Len(s) : ~IsDigit(CharAt(s, i))
  THEN (CHOOSE i \in from..Len(s) :
          ~IsDigit(CharAt(s, i)) /\ \A j \in from..(i - 1) : IsDigit(CharAt(s, j))) - 1
  ELSE Len(s)

\* the first position of s that holds no space, Len(s) + 1 when there is none
SkipSpaces(s) ==
  IF \E i \in 1..Len(s) : ~IsSpace(CharAt(s, i))
  THEN CHOOSE i \in 1..Len(s) :
         ~IsSpace(CharAt(s, i)) /\ \A j \in 1..(i - 1) : IsSpace(CharAt(s, j))
  ELSE Len(s) + 1

\* parseInt(s) with no radix, for decimal input: leading whitespace, an optional
\* sign, then the longest run of digits; NaN when there is no digit
parseInt(s) ==
  LET start == SkipSpaces(s)
      signed == start <= Len(s) /\ CharAt(s, start) \in {"+", "-"}
      from == IF signed THEN start + 1 ELSE start
      to == DigitsEnd(s, from)
      magnitude == StrToNat(SubSeq(s, from, to))
  IN IF to < from THEN JNaN
     ELSE IF signed /\ CharAt(s, start) = "-" THEN JNum(0 - magnitude)
     ELSE JNum(magnitude)

(***************************************************************************)
(* Objects: property order, property reads, enumeration.                   *)
(***************************************************************************)
\* an array index: a canonical numeric string below 2^32 - 1; such keys are
\* enumerated first, in ascending numeric order
IsArrayIndex(k) ==
  /\ k # ""
  /\ AllDigits(k)
  /\ (Len(k) = 1 \/ CharAt(k, 1) # "0")
  /\ Len(k) <= 9

RECURSIVE SortByIndex(_)
\* properties with array-index keys, in ascending order of the index
SortByIndex(e) ==
  IF Len(e) = 0 THEN <<>>
  ELSE LET m == CHOOSE i \in 1..Len(e) :
                  \A j \in 1..Len(e) : StrToNat(e[i].k) <= StrToNat(e[j].k)
       IN <<e[m]>> \o SortByIndex(SubSeq(e, 1, m - 1) \o SubSeq(e, m + 1, Len(e)))

\* OrdinaryOwnPropertyKeys: array-index keys ascending, then the other keys in
\* the order they were created
PropertyOrder(e) ==
  LET isIndex(p) == IsArrayIndex(p.k)
      notIndex(p) == ~IsArrayIndex(p.k)
  IN SortByIndex(SelectSeq(e, isIndex)) \o SelectSeq(e, notIndex)

\* defining the members of an object literal in the order written: a repeated
\* key keeps its first position and takes its last value
DefineMembers(e) ==
  LET first(i) == \A j \in 1..(i - 1) : e[j].k # e[i].k
      last(k) == CHOOSE i \in 1..Len(e) :
                   e[i].k = k /\ \A j \in (i + 1)..Len(e) : e[j].k # k
      firsts == SelectSeq([i \in 1..Len(e) |-> i], first)
  IN [n \in 1..Len(firsts) |-> P(e[firsts[n]].k, e[last(e[firsts[n]].k)].v)]

RECURSIVE JSONvalue(_)
\* the value JSON.parse builds from the syntax tree of a JSON text
JSONvalue(v) ==
  CASE v.t = "arr" -> JArr([i \in 1..Len(v.a) |-> JSONvalue(v.a[i])])
    [] v.t = "obj" ->
         JObj(PropertyOrder(DefineMembers(
           [i \in 1..Len(v.e) |-> P(v.e[i].k, JSONvalue(v.e[i].v))])))
    [] OTHER -> v

HasOwn(v, k) == v.t = "obj" /\ \E i \in 1..Len(v.e) : v.e[i].k = k

\* v.k or v[k] for a value v that is neither null nor undefined and a name k
\* that no prototype defines
Get(v, k) ==
  IF HasOwn(v, k)
  THEN v.e[CHOOSE i \in 1..Len(v.e) : v.e[i].k = k].v
  ELSE JUndef

\* v?.k
OptGet(v, k) == IF Nullish(v) THEN JUndef ELSE Get(v, k)

\* v?.[0]
OptFirst(v) ==
  CASE Nullish(v) -> JUndef
    [] v.t = "arr" -> IF Len(v.a) > 0 THEN v.a[1] ELSE JUndef
    [] v.t = "str" -> IF Len(v.s) > 0 THEN JStr(CharAt(v.s, 1)) ELSE JUndef
    [] OTHER -> Get(v, "0")

\* Object.entries(v) for a value v that is neither null nor undefined
ObjectEntries(v) ==
  CASE v.t = "obj" -> v.e
    [] v.t = "arr" -> [i \in 1..Len(v.a) |-> P(ToString(i - 1), v.a[i])]
    [] v.t = "str" -> [i \in 1..Len(v.s) |-> P(ToString(i - 1), JStr(CharAt(v.s, i)))]
    [] OTHER -> <<>>

\* Object.values(v) for a value v that is neither null nor undefined
ObjectValues(v) == [i \in 1..Len(ObjectEntries(v)) |-> ObjectEntries(v)[i].v]

(***************************************************************************)
(* The text of a JSON document.                                            *)
(***************************************************************************)
RECURSIVE JoinWith(_, _)
JoinWith(parts, sep) ==
  IF Len(parts) = 0 THEN ""
  ELSE IF Len(parts) = 1 THEN parts[1]
  ELSE parts[1] \o sep \o JoinWith(Tail(parts), sep)

RECURSIVE Serialize(_)
\* the JSON text whose syntax tree is v
Serialize(v) ==
  CASE v.t = "null" -> "null"
    [] v.t = "bool" -> IF v.b THEN "true" ELSE "false"
    [] v.t = "num" -> ToString(v.n)
    [] v.t = "str" -> "\"" \o v.s \o "\""
    [] v.t = "arr" -> "[" \o JoinWith([i \in 1..Len(v.a) |-> Serialize(v.a[i])], ",") \o "]"
    [] v.t = "obj" ->
         "{" \o JoinWith([i \in 1..Len(v.e) |->
                            "\"" \o v.e[i].k \o "\":" \o Serialize(v.e[i].v)], ",") \o "}"

(***************************************************************************)
(* Outcomes of calls: a value, or an exception.                            *)
(***************************************************************************)
Ok(v) == [threw |-> FALSE, value |-> v]
Throw(e) == [threw |-> TRUE, error |-> e]

\* what JSON.parse throws
SyntaxError == [name |-> "SyntaxError"]
\* what a property read of null or undefined, a call of a non-function and
\* `in` on a primitive throw
TypeError == [name |-> "TypeError"]
\* new Error('Unable to analyze API. ...')
UnrecognizedInputError ==
  [name |-> "Error",
   message |-> "Unable to analyze API. Please provide a valid URL or OpenAPI specification."]

(***************************************************************************)
(* The input string.                                                       *)
(***************************************************************************)
TextInput(s) == [form |-> "text", text |-> s]
JSONInput(doc) == [form |-> "json", doc |-> doc]

\* the characters of the input
InputText(input) == IF input.form = "json" THEN Serialize(input.doc) ELSE input.text

\* JSON.parse(input)
JSONparse(input) ==
  IF input.form = "json" THEN Ok(JSONvalue(input.doc)) ELSE Throw(SyntaxError)

(***************************************************************************)
(* The vendor catalog.                                                     *)
(***************************************************************************)
\* POPULAR_APIS.stripe
POPULAR_STRIPE ==
  [name |-> JStr("Stripe"),
   baseUrl |-> JStr("https://api.stripe.com/v1"),
   description |-> JStr("Payment processing and subscription management"),
   authentication |-> [type |-> "bearer"],
   endpoints |-> <<
     [path |-> "/customers", method |-> "GET",
       summary |-> JStr("List customers"),
       description |-> JStr("Returns a list of your customers"),
       parameters |-> <<
         [name |-> JStr("limit"), type |-> JStr("integer"), required |-> JBool(FALSE), description |-> JStr("Number of customers to return"),
           location |-> JStr("query"), example |-> JNum(10)],
         [name |-> JStr("email"), type |-> JStr("string"), required |-> JBool(FALSE), description |-> JStr("Filter by customer email"),
           location |-> JStr("query")]
       >>,
       responses |-> <<
         [statusCode |-> JNum(200), description |-> JStr("List of customers"),
           example |-> JObj(<<P("data", JArr(<<>>)), P("has_more", JBool(FALSE))>>)]
       >>,
       tags |-> JArr(<<JStr("customers")>>)],
     [path |-> "/customers", method |-> "POST",
       summary |-> JStr("Create customer"),
       description |-> JStr("Creates a new customer object"),
       parameters |-> <<
         [name |-> JStr("email"), type |-> JStr("string"), required |-> JBool(FALSE), description |-> JStr("Customer email"),
           location |-> JStr("body")],
         [name |-> JStr("name"), type |-> JStr("string"), required |-> JBool(FALSE), description |-> JStr("Customer name"),
           location |-> JStr("body")],
         [name |-> JStr("phone"), type |-> JStr("string"), required |-> JBool(FALSE), description |-> JStr("Customer phone"),
           location |-> JStr("body")]
       >>,
       responses |-> <<
         [statusCode |-> JNum(200), description |-> JStr("Customer created"),
           example |-> JObj(<<P("id", JStr("cus_123")), P("email", JStr("customer@example.com"))>>)]
       >>,
       tags |-> JArr(<<JStr("customers")>>)],
     [path |-> "/payment_intents", method |-> "POST",
       summary |-> JStr("Create payment intent"),
       description |-> JStr("Creates a PaymentIntent object"),
       parameters |-> <<
         [name |-> JStr("amount"), type |-> JStr("integer"), required |-> JBool(TRUE), description |-> JStr("Amount in cents"),
           location |-> JStr("body"), example |-> JNum(2000)],
         [name |-> JStr("currency"), type |-> JStr("string"), required |-> JBool(TRUE), description |-> JStr("Currency code"),
           location |-> JStr("body"), example |-> JStr("usd")],
         [name |-> JStr("customer"), type |-> JStr("string"), required |-> JBool(FALSE), description |-> JStr("Customer ID"),
           location |-> JStr("body")]
       >>,
       responses |-> <<
         [statusCode |-> JNum(200), description |-> JStr("Payment intent created"),
           example |-> JObj(<<P("id", JStr("pi_123")), P("status", JStr("requires_payment_method"))>>)]
       >>,
       tags |-> JArr(<<JStr("payments")>>)],
     [path |-> "/subscriptions", method |-> "GET",
       summary |-> JStr("List subscriptions"),
       description |-> JStr("Returns a list of your subscriptions"),
       parameters |-> <<
         [name |-> JStr("customer"), type |-> JStr("string"), required |-> JBool(FALSE), description |-> JStr("Filter by customer ID"),
           location |-> JStr("query")],
         [name |-> JStr("status"), type |-> JStr("string"), required |-> JBool(FALSE), description |-> JStr("Filter by status"),
           location |-> JStr("query")]
       >>,
       responses |-> <<
         [statusCode |-> JNum(200), description |-> JStr("List of subscriptions"),
           example |-> JObj(<<P("data", JArr(<<>>)), P("has_more", JBool(FALSE))>>)]
       >>,
       tags |-> JArr(<<JStr("subscriptions")>>)]
   >>,
   capabilities |-> <<"Process payments", "Manage customers", "Handle subscriptions", "Create invoices", "Manage payment methods">>]

\* POPULAR_APIS.shopify
POPULAR_SHOPIFY ==
  [name |-> JStr("Shopify"),
   baseUrl |-> JStr("https://{shop}.myshopify.com/admin/api/2023-10"),
   description |-> JStr("E-commerce platform for online stores"),
   authentication |-> [type |-> "apiKey", location |-> JStr("header"), name |-> JStr("X-Shopify-Access-Token")],
   endpoints |-> <<
     [path |-> "/products.json", method |-> "GET",
       summary |-> JStr("List products"),
       description |-> JStr("Retrieve a list of products"),
       parameters |-> <<
         [name |-> JStr("limit"), type |-> JStr("integer"), required |-> JBool(FALSE), description |-> JStr("Number of products to return"),
           location |-> JStr("query"), example |-> JNum(50)],
         [name |-> JStr("status"), type |-> JStr("string"), required |-> JBool(FALSE), description |-> JStr("Filter by status"),
           location |-> JStr("query")]
       >>,
       responses |-> <<
         [statusCode |-> JNum(200), description |-> JStr("List of products"),
           example |-> JObj(<<P("products", JArr(<<>>))>>)]
       >>,
       tags |-> JArr(<<JStr("products")>>)],
     [path |-> "/orders.json", method |-> "GET",
       summary |-> JStr("List orders"),
       description |-> JStr("Retrieve a list of orders"),
       parameters |-> <<
         [name |-> JStr("status"), type |-> JStr("string"), required |-> JBool(FALSE), description |-> JStr("Filter by order status"),
           location |-> JStr("query")],
         [name |-> JStr("limit"), type |-> JStr("integer"), required |-> JBool(FALSE), description |-> JStr("Number of orders to return"),
           location |-> JStr("query"), example |-> JNum(50)]
       >>,
       responses |-> <<
         [statusCode |-> JNum(200), description |-> JStr("List of orders"),
           example |-> JObj(<<P("orders", JArr(<<>>))>>)]
       >>,
       tags |-> JArr(<<JStr("orders")>>)],
     [path |-> "/customers.json", method |-> "GET",
       summary |-> JStr("List customers"),
       description |-> JStr("Retrieve a list of customers"),
       parameters |-> <<
         [name |-> JStr("limit"), type |-> JStr("integer"), required |-> JBool(FALSE), description |-> JStr("Number of customers to return"),
           location |-> JStr("query"), example |-> JNum(50)]
       >>,
       responses |-> <<
         [statusCode |-> JNum(200), description |-> JStr("List of customers"),
           example |-> JObj(<<P("customers", JArr(<<>>))>>)]
       >>,
       tags |-> JArr(<<JStr("customers")>>)],
     [path |-> "/inventory_levels.json", method |-> "GET",
       summary |-> JStr("Get inventory levels"),
       description |-> JStr("Retrieve inventory levels for products"),
       parameters |-> <<
         [name |-> JStr("inventory_item_ids"), type |-> JStr("string"), required |-> JBool(FALSE), description |-> JStr("Comma-separated inventory item IDs"),
           location |-> JStr("query")]
       >>,
       responses |-> <<
         [statusCode |-> JNum(200), description |-> JStr("Inventory levels"),
           example |-> JObj(<<P("inventory_levels", JArr(<<>>))>>)]
       >>,
       tags |-> JArr(<<JStr("inventory")>>)]
   >>,
   capabilities |-> <<"Manage products", "Process orders", "Handle customers", "Track inventory", "Manage collections">>]

\* POPULAR_APIS.slack
POPULAR_SLACK ==
  [name |-> JStr("Slack"),
   baseUrl |-> JStr("https://slack.com/api"),
   description |-> JStr("Team communication and collaboration platform"),
   authentication |-> [type |-> "bearer"],
   endpoints |-> <<
     [path |-> "/chat.postMessage", method |-> "POST",
       summary |-> JStr("Send message"),
       description |-> JStr("Sends a message to a channel"),
       parameters |-> <<
         [name |-> JStr("channel"), type |-> JStr("string"), required |-> JBool(TRUE), description |-> JStr("Channel ID or name"),
           location |-> JStr("body"), example |-> JStr("#general")],
         [name |-> JStr("text"), type |-> JStr("string"), required |-> JBool(TRUE), description |-> JStr("Message text"),
           location |-> JStr("body"), example |-> JStr("Hello, world!")],
         [name |-> JStr("username"), type |-> JStr("string"), required |-> JBool(FALSE), description |-> JStr("Bot username"),
           location |-> JStr("body")]
       >>,
       responses |-> <<
         [statusCode |-> JNum(200), description |-> JStr("Message sent"),
           example |-> JObj(<<P("ok", JBool(TRUE)), P("ts", JStr("1234567890.123456"))>>)]
       >>,
       tags |-> JArr(<<JStr("messaging")>>)],
     [path |-> "/users.list", method |-> "GET",
       summary |-> JStr("List users"),
       description |-> JStr("Lists all users in a Slack team"),
       parameters |-> <<
         [name |-> JStr("limit"), type |-> JStr("integer"), required |-> JBool(FALSE), description |-> JStr("Number of users to return"),
           location |-> JStr("query"), example |-> JNum(100)]
       >>,
       responses |-> <<
         [statusCode |-> JNum(200), description |-> JStr("List of users"),
           example |-> JObj(<<P("ok", JBool(TRUE)), P("members", JArr(<<>>))>>)]
       >>,
       tags |-> JArr(<<JStr("users")>>)],
     [path |-> "/channels.list", method |-> "GET",
       summary |-> JStr("List channels"),
       description |-> JStr("Lists all channels in a Slack team"),
       parameters |-> <<
         [name |-> JStr("exclude_archived"), type |-> JStr("boolean"), required |-> JBool(FALSE), description |-> JStr("Exclude archived channels"),
           location |-> JStr("query"), example |-> JBool(TRUE)]
       >>,
       responses |-> <<
         [statusCode |-> JNum(200), description |-> JStr("List of channels"),
           example |-> JObj(<<P("ok", JBool(TRUE)), P("channels", JArr(<<>>))>>)]
       >>,
       tags |-> JArr(<<JStr("channels")>>)],
     [path |-> "/files.upload", method |-> "POST",
       summary |-> JStr("Upload file"),
       description |-> JStr("Uploads or creates a file"),
       parameters |-> <<
         [name |-> JStr("channels"), type |-> JStr("string"), required |-> JBool(FALSE), description |-> JStr("Comma-separated list of channel names or IDs"),
           location |-> JStr("body")],
         [name |-> JStr("content"), type |-> JStr("string"), required |-> JBool(FALSE), description |-> JStr("File contents"),
           location |-> JStr("body")],
         [name |-> JStr("filename"), type |-> JStr("string"), required |-> JBool(FALSE), description |-> JStr("Filename of file"),
           location |-> JStr("body")]
       >>,
       responses |-> <<
         [statusCode |-> JNum(200), description |-> JStr("File uploaded"),
           example |-> JObj(<<P("ok", JBool(TRUE)), P("file", JObj(<<P("id", JStr("F1234567890"))>>))>>)]
       >>,
       tags |-> JArr(<<JStr("files")>>)]
   >>,
   capabilities |-> <<"Send messages", "Manage channels", "Handle users", "Upload files", "Create workflows">>]

\* const POPULAR_APIS
POPULAR_APIS ==
  [stripe |-> POPULAR_STRIPE, shopify |-> POPULAR_SHOPIFY, slack |-> POPULAR_SLACK]

VendorKeys == {"stripe", "shopify", "slack"}

(***************************************************************************)
(* new URL(input), without a base.                                         *)
(***************************************************************************)
\* the first position from `from` on whose character is in chars,
\* Len(s) + 1 when there is none
FirstPos(s, from, chars) ==
  IF \E i \in from..Len(s) : CharAt(s, i) \in chars
  THEN CHOOSE i \in from..Len(s) :
         CharAt(s, i) \in chars /\ \A j \in from..(i - 1) : CharAt(s, j) \notin chars
  ELSE Len(s) + 1

\* the last position whose character is in chars, 0 when there is none
LastPos(s, chars) ==
  IF \E i \in 1..Len(s) : CharAt(s, i) \in chars
  THEN CHOOSE i \in 1..Len(s) :
         CharAt(s, i) \in chars /\ \A j \in (i + 1)..Len(s) : CharAt(s, j) \notin chars
  ELSE 0

\* the input without its leading and trailing spaces
TrimSpaces(s) ==
  LET from == SkipSpaces(s)
      to == IF from > Len(s) THEN Len(s)
            ELSE CHOOSE i \in from..Len(s) :
                   ~IsSpace(CharAt(s, i)) /\ \A j \in (i + 1)..Len(s) : IsSpace(CharAt(s, j))
  IN SubSeq(s, from, to)

SpecialSchemes == {"http", "https", "ftp", "ws", "wss"}

ForbiddenHostChars == {" ", "#", "/", ":", "<", ">", "?", "@", "[", "\\", "]", "^", "|"}

\* the scheme of s is the text before its first ":", which starts with a letter
\* and goes on with letters, digits, "+", "-" and "."
SchemeEnd(s) == FirstPos(s, 1, {":"})

HasScheme(s) ==
  /\ SchemeEnd(s) <= Len(s)
  /\ SchemeEnd(s) > 1
  /\ IsAlpha(CharAt(s, 1))
  /\ \A i \in 2..(SchemeEnd(s) - 1) :
       IsAlpha(CharAt(s, i)) \/ IsDigit(CharAt(s, i)) \/ CharAt(s, i) \in {"+", "-", "."}

\* the authority that starts at position from: up to the next "/", "\", "?" or "#"
AuthorityAt(s, from) == SubSeq(s, from, FirstPos(s, from, {"/", "\\", "?", "#"}) - 1)

\* host and port of an authority: after the last "@", split at the first ":"
HostPort(authority) == SubSeq(authority, LastPos(authority, {"@"}) + 1, Len(authority))
HostOf(authority) ==
  SubSeq(HostPort(authority), 1, FirstPos(HostPort(authority), 1, {":"}) - 1)
PortOf(authority) ==
  SubSeq(HostPort(authority), FirstPos(HostPort(authority), 1, {":"}) + 1,
         Len(HostPort(authority)))

ValidHost(host) == \A i \in 1..Len(host) : CharAt(host, i) \notin ForbiddenHostChars
ValidPort(port) == AllDigits(port) /\ (Len(port) > 5 => FALSE) /\ StrToNat(port) <= 65535

\* the first position of rest after its leading "/" and "\" characters
AfterSlashes(rest) ==
  IF \E i \in 1..Len(rest) : CharAt(rest, i) \notin {"/", "\\"}
  THEN CHOOSE i \in 1..Len(rest) :
         CharAt(rest, i) \notin {"/", "\\"}
         /\ \A j \in 1..(i - 1) : CharAt(rest, j) \in {"/", "\\"}
  ELSE Len(rest) + 1

\* an authority the host parser and the port parser accept
ValidAuthority(authority, emptyHostAllowed) ==
  /\ emptyHostAllowed \/ HostOf(authority) # ""
  /\ ValidHost(HostOf(authority))
  /\ ValidPort(PortOf(authority))

\* what follows the scheme and its ":" parses: a special scheme needs a
\* non-empty valid host and an optional numeric port; another scheme followed
\* by "//" needs a valid (possibly empty) host; any other remainder is an
\* opaque path, which always parses
ParsesAfterScheme(scheme, rest) ==
  IF scheme \in SpecialSchemes
  THEN ValidAuthority(AuthorityAt(rest, AfterSlashes(rest)), FALSE)
  ELSE IF Len(rest) >= 2 /\ SubSeq(rest, 1, 2) = "//"
  THEN ValidAuthority(AuthorityAt(rest, 3), TRUE)
  ELSE TRUE

\* the trimmed input has a scheme, and the rest parses under it
ParsesTrimmed(s) ==
  /\ HasScheme(s)
  /\ ParsesAfterScheme(toLowerCase(SubSeq(s, 1, SchemeEnd(s) - 1)),
                       SubSeq(s, SchemeEnd(s) + 1, Len(s)))

\* whether new URL(input) returns.  (Hosts of the model hold no "%", no "["
\* and are not numbers, so percent-decoding, IPv6 and IPv4 parsing never
\* apply; the model has no "file:" input.)
URLparses(input) == ParsesTrimmed(TrimSpaces(input))

(***************************************************************************)
(* class APIAnalyzer.                                                      *)
(***************************************************************************)
\* a faulty if-chain that asks for the vendors in the opposite order
vendorOfSlackFirst(normalizedInput) ==
  IF includes(normalizedInput, "slack") \/ includes(normalizedInput, "slack.com/api")
  THEN "slack"
  ELSE IF includes(normalizedInput, "shopify") \/ includes(normalizedInput, "myshopify.com")
  THEN "shopify"
  ELSE IF includes(normalizedInput, "stripe") \/ includes(normalizedInput, "api.stripe.com")
  THEN "stripe"
  ELSE "null"

\* the if-chain of detectPopularAPI over the lower-cased input: the key of the
\* catalog record returned, "null" for null
vendorOf(normalizedInput) ==
  IF includes(normalizedInput, "stripe") \/ includes(normalizedInput, "api.stripe.com")
  THEN "stripe"
  ELSE IF includes(normalizedInput, "shopify") \/ includes(normalizedInput, "myshopify.com")
  THEN "shopify"
  ELSE IF includes(normalizedInput, "slack") \/ includes(normalizedInput, "slack.com/api")
  THEN "slack"
  ELSE "null"

\* a faulty detectPopularAPI: the input is matched as written, not lower-cased
detectPopularAPIAsWritten(text) == vendorOf(text)

\* detectPopularAPI
detectPopularAPI(text) == vendorOf(toLowerCase(text))

\* a faulty isOpenAPISpec: every text JSON.parse accepts is taken for a
\* description
specDetectedParsable(parsed) == [value |-> JBool(~parsed.threw), logged |-> parsed.threw]

\* the try block of isOpenAPISpec once JSON.parse is done: the value returned,
\* and whether the catch block ran (console.error was called)
specDetected(parsed) ==
  IF parsed.threw \/ Nullish(parsed.value)
  THEN [value |-> JBool(FALSE), logged |-> TRUE]
  ELSE [value |-> Or(Get(parsed.value, "openapi"), Get(parsed.value, "swagger")),
        logged |-> FALSE]

\* isOpenAPISpec
isOpenAPISpec(input) == specDetected(JSONparse(input))

\* isURL
isURL(text) == URLparses(text)

\* gathering the results of the callbacks of one forEach: the first exception
\* ends the loop, otherwise the values in order
allOf(results) ==
  IF \E i \in 1..Len(results) : results[i].threw
  THEN results[CHOOSE i \in 1..Len(results) :
                 results[i].threw /\ \A j \in 1..(i - 1) : ~results[j].threw]
  ELSE Ok([i \in 1..Len(results) |-> results[i].value])

\* a faulty declared parameter: required unless the declaration says otherwise
parseParameterRequired(param) ==
  IF Nullish(param) THEN Throw(TypeError)
  ELSE Ok([name |-> Get(param, "name"),
           type |-> Or(Get(param, "type"), JStr("string")),
           required |-> IF HasOwn(param, "required") THEN Get(param, "required") ELSE JBool(TRUE),
           description |-> Or(Get(param, "description"), JStr("")),
           location |-> Get(param, "in"),
           example |-> Get(param, "example")])

\* one element of methodObj.parameters
parseParameter(param) ==
  IF Nullish(param) THEN Throw(TypeError)
  ELSE Ok([name |-> Get(param, "name"),
           type |-> Or(Get(param, "type"), JStr("string")),
           required |-> Or(Get(param, "required"), JBool(FALSE)),
           description |-> Or(Get(param, "description"), JStr("")),
           location |-> Get(param, "in"),
           example |-> Get(param, "example")])

\* methodObj.parameters.forEach(...)
eachParameter(params) ==
  IF ~Truthy(params) THEN Ok(<<>>)
  ELSE IF params.t # "arr" THEN Throw(TypeError)
  ELSE allOf([i \in 1..Len(params.a) |-> parseParameter(params.a[i])])

\* "Parse parameters"
parseParameters(methodObj) == eachParameter(Get(methodObj, "parameters"))

\* a faulty body parameter: required is read from the property itself, as it
\* is for the declared parameters
parseBodyPropertyOwnFlag(name, prop, requiredProperties) ==
  IF Nullish(prop) THEN Throw(TypeError)
  ELSE Ok([name |-> JStr(name),
           type |-> Or(Get(prop, "type"), JStr("string")),
           required |-> Or(Get(prop, "required"), JBool(FALSE)),
           description |-> Or(Get(prop, "description"), JStr("")),
           location |-> JStr("body"),
           example |-> Get(prop, "example")])

\* one property of the request body schema
parseBodyProperty(name, prop, requiredProperties) ==
  IF Nullish(prop) THEN Throw(TypeError)
  ELSE Ok([name |-> JStr(name),
           type |-> Or(Get(prop, "type"), JStr("string")),
           required |-> JBool(arrayIncludes(requiredProperties, JStr(name))),
           description |-> Or(Get(prop, "description"), JStr("")),
           location |-> JStr("body"),
           example |-> Get(prop, "example")])

\* Object.entries(jsonContent.schema.properties || {}).forEach(...)
eachBodyProperty(props, requiredProperties) ==
  allOf([i \in 1..Len(props) |-> parseBodyProperty(props[i].k, props[i].v, requiredProperties)])

\* const requiredProperties = ...
requiredPropertiesOf(schema) ==
  IF HasOwn(schema, "required") /\ Get(schema, "required").t = "arr"
  THEN Get(schema, "required").a
  ELSE <<>>

\* if (jsonContent?.schema) { ... }
parseSchema(schema) ==
  IF ~Truthy(schema) THEN Ok(<<>>)
  ELSE IF schema.t \notin {"obj", "arr"} THEN Throw(TypeError)
  ELSE eachBodyProperty(ObjectEntries(Or(Get(schema, "properties"), JObj(<<>>))),
                        requiredPropertiesOf(schema))

\* if (methodObj.requestBody?.content) { ... }
parseContent(content) ==
  IF ~Truthy(content) THEN Ok(<<>>)
  ELSE parseSchema(OptGet(Get(content, "application/json"), "schema"))

\* "Parse request body"
parseRequestBody(methodObj) == parseContent(OptGet(Get(methodObj, "requestBody"), "content"))

\* one entry of methodObj.responses
parseResponse(code, response) ==
  IF Nullish(response) THEN Throw(TypeError)
  ELSE Ok([statusCode |-> parseInt(code),
           description |-> Or(Get(response, "description"), JStr("")),
           example |-> OptGet(OptGet(Get(response, "content"), "application/json"),
                              "example")])

\* Object.entries(methodObj.responses || {}).forEach(...)
eachResponse(entries) ==
  allOf([i \in 1..Len(entries) |-> parseResponse(entries[i].k, entries[i].v)])

\* "Parse responses"
parseResponses(methodObj) ==
  eachResponse(ObjectEntries(Or(Get(methodObj, "responses"), JObj(<<>>))))

\* a faulty method test: every HTTP method of a path item is kept
isAnyMethod(p) == p.k \in {"get", "post", "put", "delete", "patch", "options", "head"}

\* the methods parseOpenAPISpec keeps
KeptMethods == {"get", "post", "put", "delete", "patch"}
isKeptMethod(p) == p.k \in KeptMethods

\* a faulty push that lists the body parameters before the declared ones
pushEndpointBodyFirst(path, method, methodObj, parameters, body, responses) ==
  IF parameters.threw THEN parameters
  ELSE IF body.threw THEN body
  ELSE IF responses.threw THEN responses
  ELSE Ok([path |-> path,
           method |-> toUpperCase(method),
           summary |-> Or(Get(methodObj, "summary"), JStr("")),
           description |-> Or(Get(methodObj, "description"), JStr("")),
           parameters |-> body.value \o parameters.value,
           responses |-> responses.value,
           tags |-> Or(Get(methodObj, "tags"), JArr(<<>>))])

\* a faulty push that takes the key of the path item for the method as it is
pushEndpointKeyAsMethod(path, method, methodObj, parameters, body, responses) ==
  IF parameters.threw THEN parameters
  ELSE IF body.threw THEN body
  ELSE IF responses.threw THEN responses
  ELSE Ok([path |-> path,
           method |-> method,
           summary |-> Or(Get(methodObj, "summary"), JStr("")),
           description |-> Or(Get(methodObj, "description"), JStr("")),
           parameters |-> parameters.value \o body.value,
           responses |-> responses.value,
           tags |-> Or(Get(methodObj, "tags"), JArr(<<>>))])

\* endpoints.push({...})
pushEndpoint(path, method, methodObj, parameters, body, responses) ==
  IF parameters.threw THEN parameters
  ELSE IF body.threw THEN body
  ELSE IF responses.threw THEN responses
  ELSE Ok([path |-> path,
           method |-> toUpperCase(method),
           summary |-> Or(Get(methodObj, "summary"), JStr("")),
           description |-> Or(Get(methodObj, "description"), JStr("")),
           parameters |-> parameters.value \o body.value,
           responses |-> responses.value,
           tags |-> Or(Get(methodObj, "tags"), JArr(<<>>))])

\* the body of the inner forEach for a kept method: the endpoint pushed
parseOperation(path, method, methodObj) ==
  IF Nullish(methodObj) THEN Throw(TypeError)
  ELSE pushEndpoint(path, method, methodObj, parseParameters(methodObj),
                    parseRequestBody(methodObj), parseResponses(methodObj))

\* the inner forEach over the kept entries of one path item
eachOperation(path, kept) ==
  allOf([i \in 1..Len(kept) |-> parseOperation(path, kept[i].k, kept[i].v)])

\* Object.entries(pathObj).forEach(...): the endpoints one path contributes
parsePathItem(path, pathObj) ==
  IF Nullish(pathObj) THEN Throw(TypeError)
  ELSE eachOperation(path, SelectSeq(ObjectEntries(pathObj), isKeptMethod))

RECURSIVE Flatten(_)
\* the concatenation of a sequence of sequences
Flatten(ss) == IF Len(ss) = 0 THEN <<>> ELSE Head(ss) \o Flatten(Tail(ss))

\* the endpoints pushed by all path items, in order
pushedBy(items) == IF items.threw THEN items ELSE Ok(Flatten(items.value))

\* Object.entries(parsed.paths || {}).forEach(...)
eachPath(paths) ==
  pushedBy(allOf([i \in 1..Len(paths) |-> parsePathItem(paths[i].k, paths[i].v)]))

\* "Parse paths": the endpoints list
parsePaths(parsed) == eachPath(ObjectEntries(Or(Get(parsed, "paths"), JObj(<<>>))))

\* the authentication built from Object.values(securitySchemes)[0]
authenticationOf(firstScheme) ==
  IF OptGet(firstScheme, "type") = JStr("http") /\ OptGet(firstScheme, "scheme") = JStr("bearer")
  THEN [type |-> "bearer"]
  ELSE IF OptGet(firstScheme, "type") = JStr("apiKey")
  THEN [type |-> "apiKey",
        location |-> Get(firstScheme, "in"),
        name |-> Get(firstScheme, "name")]
  ELSE [type |-> "apiKey"]

\* element 0 of an array, undefined when it has none
firstOf(values) == IF Len(values) > 0 THEN values[1] ELSE JUndef

\* if (securitySchemes) { ... } return { type: 'apiKey' }
schemeAuthentication(securitySchemes) ==
  IF ~Truthy(securitySchemes) THEN [type |-> "apiKey"]
  ELSE authenticationOf(firstOf(ObjectValues(securitySchemes)))

\* parseAuthentication
parseAuthentication(spec) ==
  schemeAuthentication(OptGet(Get(spec, "components"), "securitySchemes"))

RECURSIVE TemplateString(_)
\* `${v}`: the string a template literal makes of a value
TemplateString(v) ==
  CASE v.t = "str" -> v.s
    [] v.t = "num" -> ToString(v.n)
    [] v.t = "bool" -> IF v.b THEN "true" ELSE "false"
    [] v.t = "arr" ->
         JoinWith([i \in 1..Len(v.a) |->
                     IF Nullish(v.a[i]) THEN "" ELSE TemplateString(v.a[i])], ",")
    [] v.t = "obj" -> "[object Object]"
    [] OTHER -> v.t

\* a faulty order of additions: the method label before the tags
capabilitiesOfLabelFirst(endpoint) ==
  (IF endpoint.method = "GET" THEN <<"Retrieve data">> ELSE <<>>)
  \o (IF endpoint.method = "POST" THEN <<"Create resources">> ELSE <<>>)
  \o (IF endpoint.method = "PUT" \/ endpoint.method = "PATCH"
      THEN <<"Update resources">> ELSE <<>>)
  \o (IF endpoint.method = "DELETE" THEN <<"Delete resources">> ELSE <<>>)
  \o [i \in 1..Len(endpoint.tags.a) |-> "Manage " \o TemplateString(endpoint.tags.a[i])]

\* what one endpoint adds to the Set, in the order it adds it
capabilitiesOf(endpoint) ==
  [i \in 1..Len(endpoint.tags.a) |-> "Manage " \o TemplateString(endpoint.tags.a[i])]
  \o (IF endpoint.method = "GET" THEN <<"Retrieve data">> ELSE <<>>)
  \o (IF endpoint.method = "POST" THEN <<"Create resources">> ELSE <<>>)
  \o (IF endpoint.method = "PUT" \/ endpoint.method = "PATCH"
      THEN <<"Update resources">> ELSE <<>>)
  \o (IF endpoint.method = "DELETE" THEN <<"Delete resources">> ELSE <<>>)

\* a faulty collection: an array that is pushed to, in place of a Set
ArrayPush(set, item) == Append(set, item)

\* Set.prototype.add of one item to the Set whose elements in insertion order
\* are set
SetAdd(set, item) == IF arrayIncludes(set, item) THEN set ELSE Append(set, item)

RECURSIVE SetAddAll(_, _)
\* Set.prototype.add of each element of items, in order
SetAddAll(set, items) ==
  IF Len(items) = 0 THEN set
  ELSE SetAddAll(SetAdd(set, Head(items)), Tail(items))

\* generateCapabilities
generateCapabilities(endpoints) ==
  IF \E i \in 1..Len(endpoints) : endpoints[i].tags.t # "arr"
  THEN Throw(TypeError)
  ELSE Ok(SetAddAll(<<>>, Flatten([i \in 1..Len(endpoints) |-> capabilitiesOf(endpoints[i])])))

\* the object parseOpenAPISpec returns
returnParsedAPI(parsed, endpoints, capabilities) ==
  IF capabilities.threw THEN capabilities
  ELSE Ok([name |-> Or(OptGet(Get(parsed, "info"), "title"), JStr("Unknown API")),
           baseUrl |-> Or(OptGet(OptFirst(Get(parsed, "servers")), "url"), JStr("")),
           description |-> Or(OptGet(Get(parsed, "info"), "description"), JStr("")),
           endpoints |-> endpoints,
           authentication |-> parseAuthentication(parsed),
           capabilities |-> capabilities.value])

\* parseOpenAPISpec after "Parse paths"
afterPaths(parsed, endpoints) ==
  IF endpoints.threw THEN endpoints
  ELSE returnParsedAPI(parsed, endpoints.value, generateCapabilities(endpoints.value))

\* parseOpenAPISpec after JSON.parse
afterParse(parsed) ==
  IF parsed.threw THEN parsed
  ELSE IF Nullish(parsed.value) THEN Throw(TypeError)
  ELSE afterPaths(parsed.value, parsePaths(parsed.value))

\* parseOpenAPISpec
parseOpenAPISpec(input) == afterParse(JSONparse(input))

\* a faulty placeholder whose baseUrl is the URL without the spaces around it
analyzeAPIFromURLTrimmed(url) ==
  [name |-> JStr("Custom API"),
   baseUrl |-> JStr(TrimSpaces(url)),
   description |-> JStr("Custom API endpoint"),
   endpoints |-> <<
     [path |-> "/",
      method |-> "GET",
      summary |-> JStr("Root endpoint"),
      description |-> JStr("Main API endpoint"),
      parameters |-> <<>>,
      responses |-> <<[statusCode |-> JNum(200), description |-> JStr("Success")]>>,
      tags |-> JArr(<<JStr("general")>>)]>>,
   authentication |-> [type |-> "apiKey"],
   capabilities |-> <<"General API operations">>]

\* analyzeAPIFromURL
analyzeAPIFromURL(url) ==
  [name |-> JStr("Custom API"),
   baseUrl |-> JStr(url),
   description |-> JStr("Custom API endpoint"),
   endpoints |-> <<
     [path |-> "/",
      method |-> "GET",
      summary |-> JStr("Root endpoint"),
      description |-> JStr("Main API endpoint"),
      parameters |-> <<>>,
      responses |-> <<[statusCode |-> JNum(200), description |-> JStr("Success")]>>,
      tags |-> JArr(<<JStr("general")>>)]>>,
   authentication |-> [type |-> "apiKey"],
   capabilities |-> <<"General API operations">>]

\* the promise an async function returns for what its body did: ref names the
\* catalog record the value is, "fresh" for an object the call built
fulfilled(value, ref) == [state |-> "fulfilled", value |-> value, ref |-> ref]
rejected(error) == [state |-> "rejected", error |-> error]
settled(result) == IF result.threw THEN rejected(result.error) ELSE fulfilled(result.value, "fresh")

\* a faulty vendor branch: the call empties the endpoints of the catalog record
\* it has returned
returnedConsumed(strategy, outcome, logged, cat) ==
  [strategy |-> strategy, outcome |-> outcome, logged |-> logged,
   catalog |-> IF strategy = "vendor"
               THEN [cat EXCEPT ![outcome.ref].endpoints = <<>>]
               ELSE cat]

\* what one call of analyzeAPI leaves: the branch that returned, the promise,
\* whether console.error was called, and the catalog
returned(strategy, outcome, logged, cat) ==
  [strategy |-> strategy, outcome |-> outcome, logged |-> logged, catalog |-> cat]

\* a faulty order of the strategies: the description test before the vendor test
classifyDescriptionFirst(input, text, cat, popularAPI, detected) ==
  IF Truthy(detected.value)
  THEN returned("openapi", settled(parseOpenAPISpec(input)), detected.logged, cat)
  ELSE IF popularAPI # "null"
  THEN returned("vendor", fulfilled(cat[popularAPI], popularAPI), FALSE, cat)
  ELSE IF isURL(text)
  THEN returned("url", fulfilled(analyzeAPIFromURL(text), "fresh"), detected.logged, cat)
  ELSE returned("unrecognized", rejected(UnrecognizedInputError), detected.logged, cat)

\* a faulty isOpenAPISpec without its try: what JSON.parse throws, or the read
\* of a property of null, leaves analyzeAPI
classifyUncaught(input, text, cat, popularAPI, detected) ==
  IF popularAPI # "null"
  THEN returned("vendor", fulfilled(cat[popularAPI], popularAPI), FALSE, cat)
  ELSE IF detected.logged
  THEN returned("none", settled(parseOpenAPISpec(input)), FALSE, cat)
  ELSE IF Truthy(detected.value)
  THEN returned("openapi", settled(parseOpenAPISpec(input)), detected.logged, cat)
  ELSE IF isURL(text)
  THEN returned("url", fulfilled(analyzeAPIFromURL(text), "fresh"), detected.logged, cat)
  ELSE returned("unrecognized", rejected(UnrecognizedInputError), detected.logged, cat)

\* the body of analyzeAPI, given what detectPopularAPI and isOpenAPISpec return
\* (isOpenAPISpec is called only when detectPopularAPI returns null)
classify(input, text, cat, popularAPI, detected) ==
  IF popularAPI # "null"
  THEN returned("vendor", fulfilled(cat[popularAPI], popularAPI), FALSE, cat)
  ELSE IF Truthy(detected.value)
  THEN returned("openapi", settled(parseOpenAPISpec(input)), detected.logged, cat)
  ELSE IF isURL(text)
  THEN returned("url", fulfilled(analyzeAPIFromURL(text), "fresh"), detected.logged, cat)
  ELSE returned("unrecognized", rejected(UnrecognizedInputError), detected.logged, cat)

\* analyzeAPI on the string with characters text, run against the catalog cat
analyzeText(input, text, cat) ==
  classify(input, text, cat, detectPopularAPI(text), isOpenAPISpec(input))

\* analyzeAPI
analyzeAPI(input, cat) == analyzeText(input, InputText(input), cat)

\* acc[endpoint.method] = (acc[endpoint.method] || 0) + 1, on the entries of
\* acc in the order its keys were added
countMethod(acc, method) ==
  IF \E i \in 1..Len(acc) : acc[i].k = method
  THEN [i \in 1..Len(acc) |->
          IF acc[i].k = method THEN [k |-> method, v |-> acc[i].v + 1] ELSE acc[i]]
  ELSE Append(acc, [k |-> method, v |-> 1])

RECURSIVE reduceMethods(_, _)
\* endpoints.reduce(..., acc)
reduceMethods(acc, endpoints) ==
  IF Len(endpoints) = 0 THEN acc
  ELSE reduceMethods(countMethod(acc, Head(endpoints).method), Tail(endpoints))

\* a faulty noun: the plural whatever the count
operationItemPlural(entry) == ToString(entry.v) \o " " \o entry.k \o " endpoints"

\* `${count} ${method} endpoint${count > 1 ? 's' : ''}`
operationItem(entry) ==
  ToString(entry.v) \o " " \o entry.k \o " endpoint" \o (IF entry.v > 1 THEN "s" ELSE "")

\* Object.entries(methods).map(...).join(', ')
operationsText(methods) ==
  JoinWith([i \in 1..Len(methods) |-> operationItem(methods[i])], ", ")

\* the string desc that generateNaturalLanguageDescription builds from the
\* four fields it reads
descriptionText(name, description, capabilities, endpoints) ==
  TemplateString(name) \o " is " \o TemplateString(description) \o ". "
  \o "It provides " \o ToString(Len(capabilities)) \o " main capabilities: "
  \o JoinWith(capabilities, ", ") \o ". "
  \o "The API has " \o ToString(Len(endpoints)) \o " endpoints available for integration. "
  \o "Available operations include: "
  \o operationsText(reduceMethods(<<>>, endpoints))
  \o "."

\* a faulty description that reverses, in place, the endpoints of the object
\* it is given
describedReversing(text, api, ref, cat) ==
  [text |-> text,
   catalog |-> IF ref \in DOMAIN cat
               THEN [cat EXCEPT ![ref].endpoints =
                       [i \in 1..Len(api.endpoints) |->
                          api.endpoints[Len(api.endpoints) + 1 - i]]]
               ELSE cat]

\* what one call of generateNaturalLanguageDescription on the object api,
\* which is the catalog record ref or a "fresh" object, leaves: the string it
\* returns, and the catalog
described(text, api, ref, cat) == [text |-> text, catalog |-> cat]

\* generateNaturalLanguageDescription
generateNaturalLanguageDescription(api, ref, cat) ==
  described(descriptionText(api.name, api.description, api.capabilities, api.endpoints),
            api, ref, cat)

\* the promise of a call of analyzeAPI when the call returns to its caller:
\* the body has run to its return or throw, as it holds no await; a returned
\* object or a thrown error settles the promise at once, while the promise
\* that analyzeAPIFromURL returned has yet to be adopted
promised(input, call) ==
  [pc |-> IF call.strategy = "url" THEN "adopting" ELSE "settled",
   input |-> input,
   outcome |-> call.outcome]

\* a faulty analyzer that keeps one promise for all calls in flight: the
\* awaiter of call c gets what the first settled call got
resumedWithShared(c, inflight) ==
  inflight[CHOOSE d \in DOMAIN inflight :
             /\ inflight[d].pc \in {"settled", "resumed"}
             /\ \A e \in DOMAIN inflight :
                  inflight[e].pc \in {"settled", "resumed"} => d <= e].outcome

\* what the awaiter of the settled call c resumes with
resumedWith(c, inflight) == inflight[c].outcome

(***************************************************************************)
(* The builder page.                                                       *)
(***************************************************************************)
\* const popularAPIs: the buttons of the page
popularAPIs ==
  <<[id |-> "stripe", url |-> "https://api.stripe.com/v1"],
    [id |-> "shopify", url |-> "https://{shop}.myshopify.com/admin/api/2023-10"],
    [id |-> "slack", url |-> "https://slack.com/api"]>>

\* a faulty handler that prefers the text of the endpoint field
analyzeInputEndpointFirst(selected, endpoint) ==
  IF endpoint # TextInput("") THEN endpoint ELSE TextInput(selected)

\* const input = selectedAPI || apiEndpoint
analyzeInput(selected, endpoint) ==
  IF selected # "" THEN TextInput(selected) ELSE endpoint

\* a faulty handler that clears the analysis when analyzeAPI throws
afterAnalysisCleared(promise, parsed) ==
  IF promise.state = "fulfilled" THEN promise.value ELSE JNull

\* parsedAPI after `await apiAnalyzer.analyzeAPI(input)` resumed: the value
\* setParsedAPI got, or what it was when the catch block took the error
afterAnalysis(promise, parsed) ==
  IF promise.state = "fulfilled" THEN promise.value ELSE parsed

\* a faulty page that generates without an analysis
mayGenerateUnanalyzed(parsed, prompt, generating) == prompt # "" /\ ~generating

\* handleGenerateAgent runs past its first line, and its button is enabled
mayGenerate(parsed, prompt, generating) ==
  parsed # JNull /\ prompt # "" /\ ~generating

(***************************************************************************)
(* The sign-in page. st holds the states error and loading, the access     *)
(* token in localStorage, whether 'auth-changed' was dispatched, and the   *)
(* path the router is at.                                                  *)
(***************************************************************************)
\* the catch block of handleSignIn
caught(st) == [st EXCEPT !.error = JStr("Sign in failed"), !.loading = FALSE]

\* a faulty handler that stores the token before it tests res.ok
afterResponseTokenFirst(ok, data, st) ==
  IF Nullish(data)
  THEN caught(st)
  ELSE IF Truthy(Get(data, "session")) /\ Truthy(Get(Get(data, "session"), "access_token"))
       THEN [st EXCEPT !.loading = FALSE,
                       !.token = Get(Get(data, "session"), "access_token").s,
                       !.dispatched = TRUE,
                       !.error = IF ok THEN @ ELSE Or(Get(data, "error"), JStr("Sign in failed")),
                       !.path = IF ok THEN "/dashboard" ELSE @]
       ELSE [st EXCEPT !.loading = FALSE,
                       !.error = IF ok THEN @ ELSE Or(Get(data, "error"), JStr("Sign in failed")),
                       !.path = IF ok THEN "/dashboard" ELSE @]

\* handleSignIn from `const data = await res.json()` to its end, for a
\* response with res.ok = ok whose body parsed to data: setLoading(false),
\* then the branch on res.ok; data.error and data.session throw a TypeError
\* into the catch block when data is null
afterResponse(ok, data, st) ==
  IF Nullish(data)
  THEN caught(st)
  ELSE IF ~ok
       THEN [st EXCEPT !.loading = FALSE,
                       !.error = Or(Get(data, "error"), JStr("Sign in failed"))]
       ELSE IF Truthy(Get(data, "session"))
               /\ Truthy(Get(Get(data, "session"), "access_token"))
            THEN [st EXCEPT !.loading = FALSE,
                            !.token = Get(Get(data, "session"), "access_token").s,
                            !.dispatched = TRUE,
                            !.path = "/dashboard"]
            ELSE [st EXCEPT !.loading = FALSE, !.path = "/dashboard"]

(***************************************************************************)
(* The inputs of the model.                                                *)
(***************************************************************************)
\* sequences over S of length at most n
SeqsUpTo(S, n) == UNION {[1..m -> S] : m \in 0..n}

\* sequences of properties with pairwise different keys
DistinctKeys(e) == \A i, j \in 1..Len(e) : i # j => e[i].k # e[j].k

\* a member list in which a member whose value is Absent is not written
Absent == [t |-> "absent"]
Members(e) == LET written(p) == p.v # Absent IN SelectSeq(e, written)

\* free text: an optional scheme prefix, then words
Prefixes == {"", "https://", "mailto:"}
Words == {"hello", " ", "/v1", "Stripe", "api.stripe.com", "shopify", "MYSHOPIFY.COM",
          "slack", "slack.com/api"}
TextInputs ==
  {TextInput(prefix \o JoinWith(ws, "")) : prefix \in Prefixes, ws \in SeqsUpTo(Words, MaxWords)}

\* JSON texts that are no object, or an object that is no description
PlainDocs ==
  {JNull, JNum(0), JNum(7), JBool(TRUE), JStr("hello"), JStr("Slack"), JArr(<<>>),
   JArr(<<JObj(<<P("openapi", JStr("3.0.0"))>>)>>), JObj(<<>>),
   JObj(<<P("paths", JObj(<<>>))>>),
   JObj(<<P("openapi", JStr("3.0.0")), P("openapi", JStr(""))>>),
   JObj(<<P("openapi", JStr("")), P("openapi", JStr("3.0.0"))>>)}

\* the values of the openapi and swagger members
OpenapiValues ==
  {Absent, JStr(""), JStr("3.0.0"), JNum(0), JNum(3), JBool(FALSE), JBool(TRUE), JNull,
   JObj(<<>>), JArr(<<>>)}
SwaggerValues == {Absent, JStr(""), JStr("2.0")}
DetectionDocs ==
  {JObj(Members(<<P("openapi", o), P("swagger", w)>>)) : o \in OpenapiValues, w \in SwaggerValues}

\* info, servers and components
InfoValues ==
  {Absent, JNull, JObj(<<>>), JStr("x"),
   JObj(<<P("title", JStr("Pets"))>>),
   JObj(<<P("title", JStr("Pets")), P("description", JStr("Pet store"))>>),
   JObj(<<P("title", JStr("")), P("description", JStr(""))>>),
   JObj(<<P("title", JStr("Stripe mirror"))>>)}
ServersValues ==
  {Absent, JNull, JArr(<<>>), JArr(<<JNull>>), JArr(<<JObj(<<>>)>>), JStr("x"),
   JArr(<<JObj(<<P("url", JStr("https://pets.example/v2"))>>)>>),
   JArr(<<JObj(<<P("url", JStr("https://a.example"))>>),
          JObj(<<P("url", JStr("https://b.example"))>>)>>)}
Bearer == JObj(<<P("type", JStr("http")), P("scheme", JStr("bearer"))>>)
Basic == JObj(<<P("type", JStr("http")), P("scheme", JStr("basic"))>>)
ApiKeyHeader ==
  JObj(<<P("type", JStr("apiKey")), P("in", JStr("header")), P("name", JStr("X-Key"))>>)
ApiKeyBare == JObj(<<P("type", JStr("apiKey"))>>)
OAuth2 == JObj(<<P("type", JStr("oauth2"))>>)
SchemeValues == {Bearer, Basic, ApiKeyHeader, ApiKeyBare, OAuth2, JNull, JStr("x")}
SchemeNames == {"main", "other", "2", "10"}
SecuritySchemesValues ==
  {Absent, JNull, JObj(<<>>), JStr("x"), JNum(1)}
  \cup {JObj(e) : e \in {e \in SeqsUpTo({P(k, v) : k \in SchemeNames, v \in SchemeValues}, 1) :
                          Len(e) = 1}}
  \cup {JObj(<<P(k1, v1), P(k2, v2)>>) :
          k1 \in {"main", "10"}, k2 \in {"other", "2"},
          v1 \in {Bearer, ApiKeyHeader}, v2 \in {Bearer, ApiKeyHeader, OAuth2}}
ComponentsValues ==
  {Absent, JNull, JObj(<<>>)}
  \cup {JObj(Members(<<P("securitySchemes", v)>>)) : v \in SecuritySchemesValues}
HeaderDocs ==
  {JObj(Members(<<P("openapi", JStr("3.0.0")), P("info", i), P("servers", v)>>)) :
     i \in InfoValues, v \in ServersValues}
  \cup {JObj(Members(<<P("swagger", JStr("2.0")), P("components", c)>>)) :
          c \in ComponentsValues}

\* a description with the given paths member
Doc(paths) ==
  JObj(Members(<<P("openapi", JStr("3.0.0")),
                 P("info", JObj(<<P("title", JStr("Pets"))>>)),
                 P("paths", paths)>>))

\* an operation object
Operation(tags, parameters, requestBody, responses) ==
  JObj(Members(<<P("summary", JStr("op")), P("tags", tags), P("parameters", parameters),
                 P("requestBody", requestBody), P("responses", responses)>>))

OkResponse == JObj(<<P("description", JStr("ok"))>>)
DefaultResponses == JObj(<<P("200", OkResponse)>>)

\* path items: method entries under the keys a path item can hold
MethodKeys == {"get", "post", "put", "delete", "patch", "options", "head", "GET", "Post"}
MethodEntries ==
  {P(k, Operation(JArr(<<JStr("orders")>>), Absent, Absent, DefaultResponses)) : k \in MethodKeys}
PathItems ==
  {JObj(e) : e \in {e \in SeqsUpTo(MethodEntries, MaxMethods) : DistinctKeys(e)}}
MalformedPathItems ==
  {JNull, JStr("x"), JNum(5), JArr(<<>>),
   JObj(<<P("get", JNull)>>), JObj(<<P("get", JStr("x"))>>), JObj(<<P("post", JNum(5))>>),
   JObj(<<P("options", JNull)>>), JObj(<<P("get", JArr(<<>>))>>)}
SinglePathDocs ==
  {Doc(JObj(<<P("/a", item)>>)) : item \in PathItems \cup MalformedPathItems}

\* several paths, each with one of a few path items
PathKeys == {"/a", "/b", "7"}
OrdersOp == Operation(JArr(<<JStr("orders")>>), Absent, Absent, DefaultResponses)
UsersOp == Operation(JArr(<<JStr("users"), JStr("orders")>>), Absent, Absent, DefaultResponses)
SomePathItems ==
  {JObj(<<P("get", OrdersOp)>>),
   JObj(<<P("post", OrdersOp), P("get", UsersOp)>>),
   JObj(<<P("options", OrdersOp), P("put", UsersOp)>>)}
MultiPathDocs ==
  {Doc(JObj(e)) :
     e \in {e \in SeqsUpTo({P(k, item) : k \in PathKeys, item \in SomePathItems}, MaxPaths) :
              Len(e) >= 2 /\ DistinctKeys(e)}}

\* paths members that are no object
PathsShapeDocs ==
  {Doc(paths) : paths \in {Absent, JNull, JStr("x"), JNum(1), JBool(TRUE), JArr(<<JNull>>),
                           JArr(<<JObj(<<P("get", OrdersOp)>>)>>)}}

\* parameters
ParamMin == JObj(<<P("name", JStr("id")), P("in", JStr("path"))>>)
ParamFull ==
  JObj(<<P("name", JStr("limit")), P("in", JStr("query")), P("type", JStr("integer")),
         P("required", JBool(TRUE)), P("description", JStr("max")), P("example", JNum(10))>>)
ParamBody == JObj(<<P("name", JStr("a")), P("in", JStr("body"))>>)
ParametersValues ==
  {Absent, JNull, JArr(<<>>), JArr(<<ParamMin>>), JArr(<<ParamFull>>), JArr(<<ParamBody>>),
   JArr(<<ParamMin, ParamFull>>), JStr("x"), JObj(<<>>), JArr(<<JNull>>), JArr(<<JStr("x")>>)}

\* request bodies
PropA == P("a", JObj(<<P("type", JStr("integer"))>>))
PropB ==
  P("b", JObj(<<P("type", JStr("string")), P("description", JStr("d")),
                P("example", JStr("e"))>>))
PropertiesValues ==
  {Absent, JNull, JStr("x"), JObj(<<>>), JObj(<<PropA>>), JObj(<<PropA, PropB>>),
   JObj(<<PropB, PropA>>), JObj(<<P("a", JNull)>>), JObj(<<P("c", JObj(<<>>))>>),
   JObj(<<PropB, P("1", JObj(<<>>))>>)}
RequiredValues ==
  {Absent, JNull, JStr("a"), JArr(<<>>), JArr(<<JStr("a")>>), JArr(<<JStr("b")>>),
   JArr(<<JStr("b"), JStr("a")>>)}
SchemaValues ==
  {JNull, JStr("x"), JNum(1), JBool(TRUE), JArr(<<>>)}
  \cup {JObj(Members(<<P("type", JStr("object")), P("properties", props),
                       P("required", required)>>)) :
          props \in PropertiesValues, required \in RequiredValues}
ContentOf(schema) == JObj(Members(<<P("schema", schema)>>))
RequestBodyValues ==
  {Absent, JNull, JStr("x"), JObj(<<>>),
   JObj(<<P("content", JNull)>>), JObj(<<P("content", JStr("x"))>>),
   JObj(<<P("content", JObj(<<>>))>>),
   JObj(<<P("content", JObj(<<P("application/json", JNull)>>))>>),
   JObj(<<P("content", JObj(<<P("text/plain", ContentOf(JObj(<<P("properties", JObj(<<PropA>>))>>)))>>))>>)}
  \cup {JObj(<<P("content", JObj(<<P("application/json", ContentOf(schema))>>))>>) :
          schema \in SchemaValues \cup {Absent}}

\* responses
ExampleResponse ==
  JObj(<<P("description", JStr("found")),
         P("content", JObj(<<P("application/json",
                               JObj(<<P("example", JObj(<<P("id", JNum(1))>>))>>))>>))>>)
ResponsesValues ==
  {Absent, JNull, JStr("x"), JObj(<<>>), DefaultResponses,
   JObj(<<P("404", JObj(<<P("description", JStr("missing"))>>)), P("200", OkResponse)>>),
   JObj(<<P("default", OkResponse)>>), JObj(<<P("2XX", OkResponse)>>),
   JObj(<<P("200", JNull)>>), JObj(<<P("200", JStr("x"))>>), JObj(<<P("200", JObj(<<>>))>>),
   JObj(<<P("200", ExampleResponse)>>),
   JObj(<<P("200", JObj(<<P("content", JNull)>>))>>),
   JObj(<<P("200", JObj(<<P("content", JObj(<<P("text/plain", JObj(<<P("example", JStr("t"))>>))>>))>>))>>)}

\* tags
TagsValues ==
  {Absent, JNull, JStr("x"), JNum(5), JObj(<<>>), JArr(<<>>), JArr(<<JStr("orders")>>),
   JArr(<<JStr("orders"), JStr("users")>>), JArr(<<JStr("orders"), JStr("orders")>>),
   JArr(<<JNum(5), JStr("5")>>), JArr(<<JStr("slack")>>)}

\* one path with one operation, varying the parts of the operation
OperationDocs ==
  {Doc(JObj(<<P("/a", JObj(<<P("post", Operation(JArr(<<JStr("orders")>>), parameters,
                                                 requestBody, DefaultResponses))>>))>>)) :
     parameters \in {Absent, JArr(<<ParamMin, ParamFull>>)}, requestBody \in RequestBodyValues}
  \cup
  {Doc(JObj(<<P("/a", JObj(<<P("post", Operation(JArr(<<JStr("orders")>>), parameters,
                                                 requestBody, DefaultResponses))>>))>>)) :
     parameters \in ParametersValues,
     requestBody \in {Absent,
                      JObj(<<P("content", JObj(<<P("application/json",
                             ContentOf(JObj(<<P("properties", JObj(<<PropA>>)),
                                              P("required", JArr(<<JStr("a")>>))>>)))>>))>>)}}
  \cup
  {Doc(JObj(<<P("/a", JObj(<<P("get", Operation(tags, Absent, Absent, responses))>>))>>)) :
     tags \in TagsValues, responses \in ResponsesValues}

JSONDocs ==
  PlainDocs \cup DetectionDocs \cup HeaderDocs \cup SinglePathDocs \cup MultiPathDocs
  \cup PathsShapeDocs \cup OperationDocs

\* every input of the model
Inputs == TextInputs \cup {JSONInput(doc) : doc \in JSONDocs}

\* inputs analysed between two analyses of arg: one that names a vendor and
\* one that is a description
OtherInputs ==
  {TextInput("I use Stripe"),
   JSONInput(Doc(JObj(<<P("/a", JObj(<<P("get", OrdersOp)>>))>>)))}

(***************************************************************************)
(* State.                                                                  *)
(***************************************************************************)
VARIABLES
  catalog,   \* the objects POPULAR_APIS holds
  arg,       \* the input string under analysis
  input,     \* the argument of the latest analyzeAPI call
  strategy,  \* the branch of analyzeAPI that ended the latest call
  outcome,   \* the promise the latest call returned, settled
  logged,    \* whether the latest call wrote to console.error
  first,     \* the outcome of the first call on arg
  again,     \* whether the latest call was a later call on arg
  desc       \* what generateNaturalLanguageDescription returned, when it was
             \* the latest call

VARIABLE
  calls      \* the calls of analyzeAPI in flight: where each is, and its promise

\* the builder page
VARIABLES
  apiEndpoint,            \* the endpoint field, as an input of analyzeAPI
  naturalLanguagePrompt,  \* the prompt field
  parsedAPI,              \* the analysis shown, or null
  agentPlan,              \* the plan shown, or null
  isAnalyzing,
  isGenerating,
  selectedAPI,            \* the id of the popular API chosen, or ''
  analysis,               \* the run of handleAnalyzeAPI: where it is, its input,
                          \* its promise, and parsedAPI when it started
  generation,             \* the run of handleGenerateAgent: where it is, and
                          \* whether parsedAPI was set when it started
  clicked                 \* whether a popular-API button was ever clicked

\* the sign-in page
VARIABLES
  signInError,            \* the state `error`
  loading,
  accessToken,            \* localStorage['sb-access-token'], '' when unset
  authChanged,            \* whether 'auth-changed' was dispatched
  pathname,               \* where the router is
  attempt                 \* the run of handleSignIn: where it is, the response,
                          \* and what the browser held when it started

page == <<apiEndpoint, naturalLanguagePrompt, parsedAPI, agentPlan, isAnalyzing,
          isGenerating, selectedAPI, analysis, generation, clicked>>
signIn == <<signInError, loading, accessToken, authChanged, pathname, attempt>>

vars == <<catalog, arg, input, strategy, outcome, logged, first, again, desc, calls,
          page, signIn>>

None == [state |-> "none"]
NoText == [said |-> FALSE]
Slots == 1..MaxCalls
Idle == [pc |-> "idle"]
Text(s) == [said |-> TRUE, text |-> s]

\* the useState(...) values of the builder page
InitPage ==
  /\ apiEndpoint = TextInput("")
  /\ naturalLanguagePrompt = ""
  /\ parsedAPI = JNull
  /\ agentPlan = JNull
  /\ isAnalyzing = FALSE
  /\ isGenerating = FALSE
  /\ selectedAPI = ""
  /\ analysis = Idle
  /\ generation = Idle
  /\ clicked = FALSE

\* the useState(...) values of the sign-in page, in a browser signed out
InitSignIn ==
  /\ signInError = JStr("")
  /\ loading = FALSE
  /\ accessToken = ""
  /\ authChanged = FALSE
  /\ pathname = "/signin"
  /\ attempt = Idle

Init ==
  /\ InitPage
  /\ InitSignIn
  /\ catalog = POPULAR_APIS
  /\ arg \in Inputs
  /\ input = [form |-> "none"]
  /\ strategy = "none"
  /\ outcome = None
  /\ logged = FALSE
  /\ first = None
  /\ again = FALSE
  /\ desc = NoText
  /\ calls = [c \in Slots |-> Idle]

\* the state after a call analyzeAPI(i) that left `call`, once the promise it
\* returned has settled
Return(i, call) ==
  /\ input' = i
  /\ strategy' = call.strategy
  /\ outcome' = call.outcome
  /\ logged' = call.logged
  /\ catalog' = call.catalog
  /\ first' = IF i = arg /\ first = None THEN call.outcome ELSE first
  /\ again' = (i = arg /\ first # None)
  /\ desc' = NoText
  /\ UNCHANGED <<arg, calls, page, signIn>>

\* a call analyzeAPI(i)
AnalyzeAPI(i) == Return(i, analyzeAPI(i, catalog))

\* the input under analysis is analysed
AnalyzeArg == AnalyzeAPI(arg)

\* another input is analysed
AnalyzeOther == \E i \in OtherInputs : AnalyzeAPI(i)

Next == AnalyzeArg \/ AnalyzeOther

Spec == Init /\ [][Next]_vars

\* the state after a call generateNaturalLanguageDescription(api) that left `call`
Said(call) ==
  /\ desc' = Text(call.text)
  /\ catalog' = call.catalog
  /\ UNCHANGED <<arg, input, strategy, outcome, logged, first, again, calls, page, signIn>>

\* a call generateNaturalLanguageDescription(api) on the ParsedAPI that the
\* latest call of analyzeAPI returned
Describe ==
  /\ outcome.state = "fulfilled"
  /\ Said(generateNaturalLanguageDescription(outcome.value, outcome.ref, catalog))

\* calls of both public methods of APIAnalyzer
NextDescribe == AnalyzeArg \/ AnalyzeOther \/ Describe

SpecDescribe == Init /\ [][NextDescribe]_vars

\* the inputs of the calls in flight: one naming a vendor, two descriptions,
\* one of which makes the transform throw, two URLs, and one that is none
ConcurrentInputs ==
  {TextInput("I use Stripe"), TextInput("slack"),
   JSONInput(Doc(JObj(<<P("/a", JObj(<<P("get", OrdersOp)>>))>>))),
   JSONInput(Doc(JObj(<<P("/a", JNull)>>))),
   TextInput("https://hello/v1"), TextInput("mailto:hello"),
   TextInput("hello")}

InitConcurrent ==
  /\ InitPage
  /\ InitSignIn
  /\ catalog = POPULAR_APIS
  /\ arg = TextInput("https://hello/v1")
  /\ input = [form |-> "none"]
  /\ strategy = "none"
  /\ outcome = None
  /\ logged = FALSE
  /\ first = None
  /\ again = FALSE
  /\ desc = NoText
  /\ calls = [c \in Slots |-> Idle]

\* the state after call c of analyzeAPI(i) returned its promise to the caller
Promised(c, i, call) ==
  /\ calls' = [calls EXCEPT ![c] = promised(i, call)]
  /\ catalog' = call.catalog
  /\ UNCHANGED <<arg, input, strategy, outcome, logged, first, again, desc, page, signIn>>

\* a caller calls analyzeAPI(i): the body runs to its end
Begin(c) ==
  /\ calls[c].pc = "idle"
  /\ \E i \in ConcurrentInputs : Promised(c, i, analyzeAPI(i, catalog))

\* the promise of call c adopts the settled promise of analyzeAPIFromURL
Adopt(c) ==
  /\ calls[c].pc = "adopting"
  /\ calls' = [calls EXCEPT ![c].pc = "settled"]
  /\ UNCHANGED <<catalog, arg, input, strategy, outcome, logged, first, again, desc, page, signIn>>

\* the caller that awaits call c resumes with what the promise settled to
Resume(c) ==
  /\ calls[c].pc = "settled"
  /\ calls' = [calls EXCEPT ![c].pc = "resumed", ![c].outcome = resumedWith(c, calls)]
  /\ UNCHANGED <<catalog, arg, input, strategy, outcome, logged, first, again, desc, page, signIn>>

NextConcurrent == \E c \in Slots : Begin(c) \/ Adopt(c) \/ Resume(c)

SpecConcurrent == InitConcurrent /\ [][NextConcurrent]_vars

(***************************************************************************)
(* The builder page: what the user does, and the two handlers.             *)
(* agentName and agentDescription are bound to their fields alone;         *)
(* handleTestAgent sets no state.                                          *)
(***************************************************************************)
analyzer == <<arg, input, strategy, outcome, logged, first, again, desc, calls>>

\* a click on the button of a popular API
SelectPopular ==
  /\ \E k \in DOMAIN popularAPIs :
       /\ selectedAPI' = popularAPIs[k].id
       /\ apiEndpoint' = TextInput(popularAPIs[k].url)
  /\ clicked' = TRUE
  /\ UNCHANGED <<naturalLanguagePrompt, parsedAPI, agentPlan, isAnalyzing, isGenerating,
                 analysis, generation>>
  /\ UNCHANGED <<catalog, analyzer, signIn>>

\* an edit of the endpoint field
EditEndpoint ==
  /\ \E text \in {TextInput(""), TextInput("hello"), TextInput("https://hello/v1"),
                  JSONInput(Doc(JObj(<<P("/a", JObj(<<P("get", OrdersOp)>>))>>))),
                  JSONInput(Doc(JObj(<<P("/a", JNull)>>)))} :
       apiEndpoint' = text
  /\ UNCHANGED <<naturalLanguagePrompt, parsedAPI, agentPlan, isAnalyzing, isGenerating,
                 selectedAPI, analysis, generation, clicked>>
  /\ UNCHANGED <<catalog, analyzer, signIn>>

\* an edit of the prompt field
EditPrompt ==
  /\ \E text \in {"", "refund the last order"} : naturalLanguagePrompt' = text
  /\ UNCHANGED <<apiEndpoint, parsedAPI, agentPlan, isAnalyzing, isGenerating,
                 selectedAPI, analysis, generation, clicked>>
  /\ UNCHANGED <<catalog, analyzer, signIn>>

\* handleAnalyzeAPI up to its await: the call analyzeAPI(i) left `call`
Analyzing(i, call) ==
  /\ isAnalyzing' = TRUE
  /\ analysis' = [pc |-> promised(i, call).pc, input |-> i,
                  outcome |-> call.outcome, before |-> parsedAPI]
  /\ catalog' = call.catalog
  /\ UNCHANGED <<apiEndpoint, naturalLanguagePrompt, parsedAPI, agentPlan, isGenerating,
                 selectedAPI, generation, clicked>>
  /\ UNCHANGED <<analyzer, signIn>>

\* a click on Analyze
HandleAnalyzeAPI ==
  /\ apiEndpoint # TextInput("") \/ selectedAPI # ""
  /\ ~isAnalyzing
  /\ Analyzing(analyzeInput(selectedAPI, apiEndpoint),
               analyzeAPI(analyzeInput(selectedAPI, apiEndpoint), catalog))

\* the promise of analyzeAPI adopts the settled promise of analyzeAPIFromURL
AnalysisAdopts ==
  /\ analysis.pc = "adopting"
  /\ analysis' = [analysis EXCEPT !.pc = "settled"]
  /\ UNCHANGED <<apiEndpoint, naturalLanguagePrompt, parsedAPI, agentPlan, isAnalyzing,
                 isGenerating, selectedAPI, generation, clicked>>
  /\ UNCHANGED <<catalog, analyzer, signIn>>

\* handleAnalyzeAPI from its await to its end: try, catch, finally
AnalysisResumes ==
  /\ analysis.pc = "settled"
  /\ parsedAPI' = afterAnalysis(analysis.outcome, parsedAPI)
  /\ isAnalyzing' = FALSE
  /\ analysis' = [analysis EXCEPT !.pc = "ended"]
  /\ UNCHANGED <<apiEndpoint, naturalLanguagePrompt, agentPlan, isGenerating,
                 selectedAPI, generation, clicked>>
  /\ UNCHANGED <<catalog, analyzer, signIn>>

\* a click on Generate: handleGenerateAgent up to its await
HandleGenerateAgent ==
  /\ mayGenerate(parsedAPI, naturalLanguagePrompt, isGenerating)
  /\ isGenerating' = TRUE
  /\ generation' = [pc |-> "planning", analyzed |-> parsedAPI # JNull]
  /\ UNCHANGED <<apiEndpoint, naturalLanguagePrompt, parsedAPI, agentPlan, isAnalyzing,
                 selectedAPI, analysis, clicked>>
  /\ UNCHANGED <<catalog, analyzer, signIn>>

\* handleGenerateAgent from its await to its end: the planner returned a
\* plan, or it threw
GenerationResumes ==
  /\ generation.pc = "planning"
  /\ \/ agentPlan' = [workflow |-> "planned"]
     \/ agentPlan' = agentPlan
  /\ isGenerating' = FALSE
  /\ generation' = [generation EXCEPT !.pc = "ended"]
  /\ UNCHANGED <<apiEndpoint, naturalLanguagePrompt, parsedAPI, isAnalyzing,
                 selectedAPI, analysis, clicked>>
  /\ UNCHANGED <<catalog, analyzer, signIn>>

\* onWorkflowChange of the workflow builder, which a plan alone shows
WorkflowChange ==
  /\ agentPlan # JNull
  /\ agentPlan' = [agentPlan EXCEPT !.workflow = "edited"]
  /\ UNCHANGED <<apiEndpoint, naturalLanguagePrompt, parsedAPI, isAnalyzing, isGenerating,
                 selectedAPI, analysis, generation, clicked>>
  /\ UNCHANGED <<catalog, analyzer, signIn>>

NextBuilder ==
  \/ SelectPopular
  \/ EditEndpoint
  \/ EditPrompt
  \/ HandleAnalyzeAPI
  \/ AnalysisAdopts
  \/ AnalysisResumes
  \/ HandleGenerateAgent
  \/ GenerationResumes
  \/ WorkflowChange

SpecBuilder == InitConcurrent /\ [][NextBuilder]_vars

\* the reactions of a settled promise are jobs the event loop runs
FairBuilder == SpecBuilder /\ WF_vars(AnalysisAdopts) /\ WF_vars(AnalysisResumes)

(***************************************************************************)
(* The sign-in page: the form, and handleSignIn split at its two awaits.   *)
(***************************************************************************)
\* a body res.json() rejects
Unparsable == [t |-> "unparsable"]

\* the bodies a response may carry; access tokens are strings
Bodies ==
  {Unparsable, JNull, JStr("Bad Gateway"), JObj(<<>>),
   JObj(<<P("error", JStr("Invalid login credentials"))>>),
   JObj(<<P("error", JStr(""))>>),
   JObj(<<P("error", JNum(401))>>),
   JObj(<<P("session", JNull)>>),
   JObj(<<P("session", JObj(<<P("access_token", JStr(""))>>))>>),
   JObj(<<P("session", JObj(<<P("access_token", JStr("t1"))>>))>>),
   JObj(<<P("user", JStr("u")), P("session", JObj(<<P("access_token", JStr("t2"))>>))>>),
   JObj(<<P("error", JStr("Email not confirmed")),
          P("session", JObj(<<P("access_token", JStr("t1"))>>))>>)}

\* what the page and the browser hold
signedIn ==
  [error |-> signInError, loading |-> loading, token |-> accessToken,
   dispatched |-> authChanged, path |-> pathname]

\* the run of handleSignIn ends and leaves st; failed: the response was not
\* ok, the request failed, or the body did not parse
Ended(st, failed) ==
  /\ signInError' = st.error
  /\ loading' = st.loading
  /\ accessToken' = st.token
  /\ authChanged' = st.dispatched
  /\ pathname' = st.path
  /\ attempt' = [pc |-> "ended", failed |-> failed, started |-> attempt.started]
  /\ UNCHANGED <<catalog, analyzer, page>>

\* the sign-in page is opened: the component mounts with its initial states,
\* in a browser that keeps its localStorage
VisitSignIn ==
  /\ pathname = "/dashboard"
  /\ pathname' = "/signin"
  /\ signInError' = JStr("")
  /\ loading' = FALSE
  /\ attempt' = Idle
  /\ UNCHANGED <<accessToken, authChanged>>
  /\ UNCHANGED <<catalog, analyzer, page>>

\* the form is submitted: handleSignIn up to `await fetch(...)`
HandleSignIn ==
  /\ pathname = "/signin"
  /\ ~loading
  /\ loading' = TRUE
  /\ signInError' = JStr("")
  /\ attempt' = [pc |-> "fetching", started |-> signedIn]
  /\ UNCHANGED <<accessToken, authChanged, pathname>>
  /\ UNCHANGED <<catalog, analyzer, page>>

\* the promise of fetch settles: rejected when the request failed, fulfilled
\* with a response otherwise
FetchSettles ==
  /\ attempt.pc = "fetching"
  /\ \/ Ended(caught(signedIn), TRUE)
     \/ /\ \E ok \in BOOLEAN, body \in Bodies :
             attempt' = [pc |-> "parsing", ok |-> ok, body |-> body,
                         started |-> attempt.started]
        /\ UNCHANGED <<catalog, analyzer, page>>
        /\ UNCHANGED <<signInError, loading, accessToken, authChanged, pathname>>

\* the promise of res.json() settles: rejected when the body does not parse
JsonSettles ==
  /\ attempt.pc = "parsing"
  /\ IF attempt.body = Unparsable
     THEN Ended(caught(signedIn), TRUE)
     ELSE Ended(afterResponse(attempt.ok, attempt.body, signedIn), ~attempt.ok)

NextSignIn == VisitSignIn \/ HandleSignIn \/ FetchSettles \/ JsonSettles

\* a request ends with a response or a failure, and res.json() settles once
\* the body has arrived
SpecSignIn ==
  InitConcurrent /\ [][NextSignIn]_vars /\ WF_vars(FetchSettles) /\ WF_vars(JsonSettles)

(***************************************************************************)
(* What the properties speak about.                                        *)
(***************************************************************************)
\* a call has returned
Called == input.form # "none"

\* the characters of the argument of the latest call
InputChars == InputText(input)

\* the signature substrings of each vendor
Signatures ==
  [stripe |-> {"stripe", "api.stripe.com"},
   shopify |-> {"shopify", "myshopify.com"},
   slack |-> {"slack", "slack.com/api"}]

\* the vendors of which a signature occurs in the lower-cased string
SignaturesIn(lowered) == {v \in VendorKeys : \E sig \in Signatures[v] : includes(lowered, sig)}
VendorsNamed == SignaturesIn(toLowerCase(InputChars))

\* the value JSON.parse gives for the argument of the latest call, when it is
\* the text of a JSON document
InputValue == JSONvalue(input.doc)

\* the argument is a JSON text whose value has a truthy openapi or swagger field
IsDescription ==
  /\ input.form = "json"
  /\ ~Nullish(InputValue)
  /\ (Truthy(Get(InputValue, "openapi")) \/ Truthy(Get(InputValue, "swagger")))

\* the latest call returned the catalog record of vendor v, and left it as it was
ReturnedRecord(v) ==
  /\ outcome.state = "fulfilled"
  /\ outcome.ref = v
  /\ outcome.value = POPULAR_APIS[v]
  /\ catalog = POPULAR_APIS

\* the latest call transformed a description into a ParsedAPI
Transformed == strategy = "openapi" /\ outcome.state = "fulfilled"

\* the elements of seq at the positions in keep, in order
Subsequence(seq, keep) ==
  [n \in 1..Cardinality(keep) |->
     seq[CHOOSE i \in keep : Cardinality({j \in keep : j <= i}) = n]]

(***************************************************************************)
(* C1.  The three strategies are tried in the order vendor, description,   *)
(* URL, and the first that applies decides: an input that names a vendor   *)
(* gets the catalog record even when it is a description or a URL as well; *)
(* a description that names no vendor is transformed, never taken for a    *)
(* URL; the URL placeholder is made only when neither applies.             *)
(***************************************************************************)
StrategyOrder ==
  Called =>
    /\ VendorsNamed # {} =>
          strategy = "vendor" /\ \E v \in VendorKeys : ReturnedRecord(v)
    /\ VendorsNamed = {} /\ IsDescription =>
          /\ strategy = "openapi"
          /\ outcome = settled(parseOpenAPISpec(input))
    /\ strategy = "url" => VendorsNamed = {} /\ ~IsDescription

\* a description that names a vendor got the catalog record
VendorBeatsDescription ==
  Called /\ strategy = "vendor" /\ IsDescription /\ ReturnedRecord("stripe")

(***************************************************************************)
(* C2.  As stated: for each vendor, every input in which a signature of    *)
(* that vendor occurs after lower-casing gets exactly that vendor's        *)
(* catalog record, unchanged.                                              *)
(***************************************************************************)
EveryNamedVendorReturned == Called => \A v \in VendorsNamed : ReturnedRecord(v)

\* the vendors in the order detectPopularAPI asks for them
VendorOrder == <<"stripe", "shopify", "slack">>
FirstNamed ==
  VendorOrder[CHOOSE n \in 1..Len(VendorOrder) :
                /\ VendorOrder[n] \in VendorsNamed
                /\ \A m \in 1..(n - 1) : VendorOrder[m] \notin VendorsNamed]

\* C2, amended: an input in which a signature of some vendor occurs after
\* lower-casing gets the unchanged catalog record of the first vendor, in the
\* order stripe, shopify, slack, of which a signature occurs
FirstNamedVendorReturned == Called /\ VendorsNamed # {} => ReturnedRecord(FirstNamed)

\* an input naming shopify, in capitals, and slack got the shopify record
ShopifyBeforeSlack ==
  /\ Called
  /\ VendorsNamed = {"shopify", "slack"}
  /\ ~includes(InputChars, "shopify")
  /\ ReturnedRecord("shopify")

\* the entries of the paths object of the document
DocPaths == ObjectEntries(Or(Get(InputValue, "paths"), JObj(<<>>)))

\* the name of the HTTP method each kept key of a path item stands for
MethodName ==
  [get |-> "GET", post |-> "POST", put |-> "PUT", delete |-> "DELETE", patch |-> "PATCH"]

\* entry j of path item i of paths, as the pair q = <<i, j>>: its key and its value
KeyAt(paths, q) == ObjectEntries(paths[q[1]].v)[q[2]].k
OperationAt(paths, q) == ObjectEntries(paths[q[1]].v)[q[2]].v

\* the (path, method) pairs of paths whose method is one of the five
KeptPairs(paths) ==
  {q \in UNION {{<<i, j>> : j \in 1..Len(ObjectEntries(paths[i].v))} : i \in 1..Len(paths)} :
     KeyAt(paths, q) \in DOMAIN MethodName}

\* the place of pair q among pairs in path-then-method order
Rank(pairs, q) == Cardinality({r \in pairs : r[1] < q[1] \/ (r[1] = q[1] /\ r[2] <= q[2])})

\* endpoints holds one entry for each kept pair of paths, in path-then-method
\* order, with the path and the method of the pair
EndpointsFollow(endpoints, paths) ==
  LET pairs == KeptPairs(paths)
  IN /\ Len(endpoints) = Cardinality(pairs)
     /\ \A q \in pairs :
           /\ endpoints[Rank(pairs, q)].path = paths[q[1]].k
           /\ endpoints[Rank(pairs, q)].method = MethodName[KeyAt(paths, q)]

(***************************************************************************)
(* C3.  For an accepted description, endpoints has as many entries as the  *)
(* paths of the document have (path, method) pairs with a method among     *)
(* GET, POST, PUT, DELETE, PATCH; any other key of a path item adds none;  *)
(* the entries come in path-then-method order of the document.             *)
(***************************************************************************)
EndpointPerKeptPair == Transformed => EndpointsFollow(outcome.value.endpoints, DocPaths)

\* paths has two path items, one of them with an OPTIONS entry before a PUT entry
OptionsBeforePut(paths) ==
  /\ Len(paths) = 2
  /\ \E i \in 1..Len(paths) :
        /\ Len(ObjectEntries(paths[i].v)) = 2
        /\ KeyAt(paths, <<i, 1>>) = "options"
        /\ KeyAt(paths, <<i, 2>>) = "put"

\* such a description gave a result with more than one endpoint
OtherVerbSkipped ==
  Called /\ Transformed /\ Len(outcome.value.endpoints) >= 2 /\ OptionsBeforePut(DocPaths)

(***************************************************************************)
(* C4.  As stated: a call of analyzeAPI ends in one of two ways, a         *)
(* complete ParsedAPI or the unrecognized-input error; no other error      *)
(* leaves it, in particular not from an input that passes the description  *)
(* test but whose paths, operations, parameters or responses are missing,  *)
(* null or of the wrong shape.                                             *)
(***************************************************************************)
ParsedAPIFields == {"name", "baseUrl", "description", "endpoints", "authentication", "capabilities"}

OnlyUnrecognizedInputError ==
  Called =>
    \/ outcome.state = "fulfilled" /\ DOMAIN outcome.value = ParsedAPIFields
    \/ outcome.state = "rejected" /\ outcome.error = UnrecognizedInputError

\* api is the placeholder analyzeAPIFromURL makes for the string url
IsPlaceholder(api, url) ==
  /\ api.name = JStr("Custom API")
  /\ api.baseUrl = JStr(url)
  /\ Len(api.endpoints) = 1
  /\ api.endpoints[1].path = "/"
  /\ api.endpoints[1].method = "GET"
  /\ api.capabilities = <<"General API operations">>

(***************************************************************************)
(* C5.  For an input that is no JSON text, names no vendor and is a valid  *)
(* URL, what JSON.parse throws stays inside isOpenAPISpec, where it is     *)
(* logged, and analyzeAPI returns the one-endpoint URL placeholder.        *)
(***************************************************************************)
ParseFailureSwallowed ==
  Called /\ input.form = "text" /\ VendorsNamed = {} /\ URLparses(InputChars) =>
    /\ logged
    /\ outcome.state = "fulfilled"
    /\ IsPlaceholder(outcome.value, InputChars)

\* a URL that is no JSON text got the placeholder, after the parse failure was logged
PlaceholderAfterParseFailure ==
  /\ Called
  /\ input.form = "text"
  /\ strategy = "url"
  /\ logged
  /\ outcome.state = "fulfilled"
  /\ outcome.value.baseUrl = JStr("https://hello/v1")

(***************************************************************************)
(* C6.  For an input that names no vendor, is no valid URL, and either is  *)
(* no JSON text or is one whose value has neither a truthy openapi nor a   *)
(* truthy swagger field, analyzeAPI fails with the unrecognized-input      *)
(* error and returns no ParsedAPI.                                         *)
(***************************************************************************)
UnrecognizedInputRejected ==
  Called /\ VendorsNamed = {} /\ ~URLparses(InputChars) /\ ~IsDescription =>
    /\ outcome.state = "rejected"
    /\ outcome.error = UnrecognizedInputError

\* a JSON text without a truthy openapi or swagger field was rejected
PlainJSONRejected ==
  /\ Called
  /\ input.form = "json"
  /\ InputValue.t = "obj"
  /\ ~IsDescription
  /\ outcome.state = "rejected"
  /\ outcome.error = UnrecognizedInputError

\* the JSON request body schema of an operation: undefined when it has none
SchemaOf(operation) ==
  OptGet(Get(OptGet(OptGet(operation, "requestBody"), "content"), "application/json"), "schema")

\* the names the required list of a schema holds: none when it has no list
ListedRequired(schema) ==
  IF Get(schema, "required").t = "arr"
  THEN {Get(schema, "required").a[i] : i \in 1..Len(Get(schema, "required").a)}
  ELSE {}

\* the number of parameters an operation declares itself
DeclaredCount(operation) ==
  IF Get(operation, "parameters").t = "arr" THEN Len(Get(operation, "parameters").a) ELSE 0

\* after the declared parameters of its operation, parameters holds one body
\* parameter for each of props, the declared properties of the schema, which
\* is required exactly when its name is among listed
BodyParametersFollow(parameters, declared, props, listed) ==
  /\ Len(parameters) = declared + Len(props)
  /\ \A k \in 1..Len(props) :
        /\ parameters[declared + k].name = JStr(props[k].k)
        /\ parameters[declared + k].location = JStr("body")
        /\ parameters[declared + k].required = JBool(JStr(props[k].k) \in listed)
  /\ \A k \in 1..Len(props) :
        Cardinality({m \in (declared + 1)..Len(parameters) :
                       parameters[m].name = JStr(props[k].k)}) = 1

\* the above for every kept pair of paths whose operation has a schema
BodyParametersOf(endpoints, paths) ==
  LET pairs == KeptPairs(paths)
  IN Len(endpoints) = Cardinality(pairs)
     /\ \A q \in pairs :
           Truthy(SchemaOf(OperationAt(paths, q))) =>
             BodyParametersFollow(
               endpoints[Rank(pairs, q)].parameters,
               DeclaredCount(OperationAt(paths, q)),
               ObjectEntries(Or(Get(SchemaOf(OperationAt(paths, q)), "properties"), JObj(<<>>))),
               ListedRequired(SchemaOf(OperationAt(paths, q))))

\* among all of parameters, each of props has exactly one parameter of its
\* name with location "body", required exactly when the name is among listed
OneBodyParameterEach(parameters, props, listed) ==
  \A k \in 1..Len(props) :
    /\ Cardinality({m \in 1..Len(parameters) :
                      /\ parameters[m].location = JStr("body")
                      /\ parameters[m].name = JStr(props[k].k)}) = 1
    /\ \A m \in 1..Len(parameters) :
          parameters[m].location = JStr("body") /\ parameters[m].name = JStr(props[k].k) =>
            parameters[m].required = JBool(JStr(props[k].k) \in listed)

\* the above for every kept pair of paths whose operation has a schema
OneBodyParameterOf(endpoints, paths) ==
  LET pairs == KeptPairs(paths)
  IN Len(endpoints) = Cardinality(pairs)
     /\ \A q \in pairs :
           Truthy(SchemaOf(OperationAt(paths, q))) =>
             OneBodyParameterEach(
               endpoints[Rank(pairs, q)].parameters,
               ObjectEntries(Or(Get(SchemaOf(OperationAt(paths, q)), "properties"), JObj(<<>>))),
               ListedRequired(SchemaOf(OperationAt(paths, q))))

(***************************************************************************)
(* C7.  As stated: for every operation of an accepted description that has *)
(* an application/json request body schema, the endpoint has exactly one   *)
(* parameter with location "body" for each declared property of the        *)
(* schema, required exactly when the name of the property is in the        *)
(* required list of the schema; without a required list, no body           *)
(* parameter is required.                                                  *)
(***************************************************************************)
OneBodyParameterPerProperty == Transformed => OneBodyParameterOf(outcome.value.endpoints, DocPaths)

\* C7, amended: after the parameters the operation declares itself, which
\* keep the location they declare, "body" included, the endpoint has exactly
\* one parameter with location "body" for each declared property of the
\* schema, in the order of the properties, required exactly when the name of
\* the property is in the required list of the schema; without a required
\* list that is an array, none of these is required
BodyParameterPerProperty == Transformed => BodyParametersOf(outcome.value.endpoints, DocPaths)

\* an operation that declares a parameter a in the body and has the property
\* a, listed as required, gave two body parameters named a, the declared one
\* not required and the one of the schema required
DeclaredBodyParameterKept ==
  /\ Called
  /\ Transformed
  /\ Len(outcome.value.endpoints) = 1
  /\ Len(outcome.value.endpoints[1].parameters) = 2
  /\ \A m \in 1..2 :
        /\ outcome.value.endpoints[1].parameters[m].name = JStr("a")
        /\ outcome.value.endpoints[1].parameters[m].location = JStr("body")
  /\ outcome.value.endpoints[1].parameters[1].required = JBool(FALSE)
  /\ outcome.value.endpoints[1].parameters[2].required = JBool(TRUE)

\* seq holds no element twice
NoDuplicates(seq) == \A i, j \in 1..Len(seq) : i # j => seq[i] # seq[j]

\* the label of each method
MethodLabel ==
  [GET |-> "Retrieve data", POST |-> "Create resources", PUT |-> "Update resources",
   PATCH |-> "Update resources", DELETE |-> "Delete resources"]

\* "Manage {tag}" for each tag of the endpoint, then the label of its method
Additions(endpoint) ==
  [i \in 1..Len(endpoint.tags.a) |-> "Manage " \o TemplateString(endpoint.tags.a[i])]
  \o <<MethodLabel[endpoint.method]>>

\* the additions of all endpoints, visited in order
AllAdditions(endpoints) == Flatten([i \in 1..Len(endpoints) |-> Additions(endpoints[i])])

\* seq without the later occurrences of its elements
FirstOccurrences(seq) ==
  Subsequence(seq, {i \in 1..Len(seq) : \A j \in 1..(i - 1) : seq[j] # seq[i]})

(***************************************************************************)
(* C8.  The capabilities of every ParsedAPI analyzeAPI returns, be it a    *)
(* catalog record, the transform of a description or the URL placeholder,  *)
(* hold no entry twice.                                                    *)
(***************************************************************************)
CapabilitiesDistinct ==
  Called /\ outcome.state = "fulfilled" => NoDuplicates(outcome.value.capabilities)

\* an endpoint tagged "orders" twice gave "Manage orders" once
RepeatedTagOnce ==
  /\ Called
  /\ Transformed
  /\ Len(outcome.value.endpoints) = 1
  /\ outcome.value.endpoints[1].tags = JArr(<<JStr("orders"), JStr("orders")>>)
  /\ outcome.value.capabilities = <<"Manage orders", "Retrieve data">>

(***************************************************************************)
(* C9.  generateCapabilities returns what visiting the endpoints in order  *)
(* gives when each adds "Manage {tag}" for each of its tags and then       *)
(* exactly one method label, and only the first occurrence of each string  *)
(* is kept; a GET and a POST endpoint both tagged "orders" give "Manage    *)
(* orders", "Retrieve data", "Create resources".                           *)
(***************************************************************************)
CapabilitiesAreFirstAdditions ==
  Transformed =>
    /\ \A i \in 1..Len(outcome.value.endpoints) :
          outcome.value.endpoints[i].method \in DOMAIN MethodLabel
    /\ outcome.value.capabilities = FirstOccurrences(AllAdditions(outcome.value.endpoints))

\* the example: a GET and a POST endpoint, both tagged "orders"
OrdersExample ==
  /\ Called
  /\ Transformed
  /\ Len(outcome.value.endpoints) = 2
  /\ outcome.value.endpoints[1].method = "GET"
  /\ outcome.value.endpoints[2].method = "POST"
  /\ \A i \in 1..2 : outcome.value.endpoints[i].tags = JArr(<<JStr("orders")>>)
  /\ outcome.value.capabilities = <<"Manage orders", "Retrieve data", "Create resources">>

(***************************************************************************)
(* C10.  analyzeAPI is a function of its input: whatever calls came        *)
(* before, a later call on a string ends as the first call on it did,      *)
(* with an equal ParsedAPI or with the same error.                         *)
(***************************************************************************)
SameInputSameOutcome == again => outcome = first

\* a later call on an input that names a vendor returned what the first did
VendorAnalysedAgain ==
  /\ again
  /\ input = arg
  /\ strategy = "vendor"
  /\ outcome.state = "fulfilled"
  /\ outcome = first

(***************************************************************************)
(* C11.  As stated: each call of analyzeAPI builds the ParsedAPI it        *)
(* returns, which is no object that another call returned and no record of *)
(* the catalog, so that a write through it reaches neither.                *)
(***************************************************************************)
ReturnedValueFresh ==
  Called /\ outcome.state = "fulfilled" => outcome.ref \notin VendorKeys

(***************************************************************************)
(* C12.  No operation of APIAnalyzer writes to the vendor catalog: after   *)
(* any sequence of calls of analyzeAPI and of                              *)
(* generateNaturalLanguageDescription, on any inputs, every record of      *)
(* POPULAR_APIS is as it was at the start, in all its fields.              *)
(***************************************************************************)
CatalogUnwritten ==
  \A v \in VendorKeys :
    /\ catalog[v].name = POPULAR_APIS[v].name
    /\ catalog[v].baseUrl = POPULAR_APIS[v].baseUrl
    /\ catalog[v].description = POPULAR_APIS[v].description
    /\ catalog[v].authentication = POPULAR_APIS[v].authentication
    /\ catalog[v].endpoints = POPULAR_APIS[v].endpoints
    /\ catalog[v].capabilities = POPULAR_APIS[v].capabilities

\* the slack record was returned by two calls of analyzeAPI and then
\* described, and is as it was at the start
CatalogRecordDescribed ==
  /\ again
  /\ desc.said
  /\ strategy = "vendor"
  /\ outcome.ref = "slack"
  /\ catalog.slack = POPULAR_APIS.slack

\* the outcome of analyzeAPI(i) when no other call is made
Alone(i) == analyzeAPI(i, POPULAR_APIS).outcome

(***************************************************************************)
(* C13.  Calls of analyzeAPI in flight at once are independent: however    *)
(* their steps interleave, the caller of each resumes with the outcome     *)
(* that the same call has when it runs alone.                              *)
(***************************************************************************)
OutcomeAsAlone ==
  \A c \in Slots : calls[c].pc = "resumed" => calls[c].outcome = Alone(calls[c].input)

\* while a call on a URL waited for its promise to be adopted, a call on a
\* description that began after it ran to its end and its caller resumed
OvertakenWhileAdopting ==
  /\ calls[1].pc = "adopting"
  /\ calls[1].input = TextInput("https://hello/v1")
  /\ calls[2].pc = "resumed"
  /\ calls[2].input.form = "json"
  /\ calls[2].outcome.state = "fulfilled"

\* the securitySchemes map of a description, given as its syntax tree or as
\* its value
SchemesOf(description) == OptGet(Get(description, "components"), "securitySchemes")

\* the first entry of a scheme map: undefined when it is no object or is empty
FirstScheme(schemes) ==
  IF Truthy(schemes) /\ schemes.t = "obj" /\ Len(schemes.e) > 0
  THEN schemes.e[1].v
  ELSE JUndef

\* the authentication the claim gives for a first scheme
AuthenticationFor(scheme) ==
  IF OptGet(scheme, "type") = JStr("http") /\ OptGet(scheme, "scheme") = JStr("bearer")
  THEN [type |-> "bearer"]
  ELSE IF OptGet(scheme, "type") = JStr("apiKey")
  THEN [type |-> "apiKey", location |-> Get(scheme, "in"), name |-> Get(scheme, "name")]
  ELSE [type |-> "apiKey"]

(***************************************************************************)
(* C14.  As stated: for an accepted description, authentication follows    *)
(* from the first declared security scheme only, that is the first in the  *)
(* text of the document: http with bearer gives bearer; apiKey gives       *)
(* apiKey with the in and the name of that scheme; any other first scheme, *)
(* an empty map or no map gives apiKey without location and name.  Later   *)
(* schemes have no influence, and the type is never oauth or basic.        *)
(***************************************************************************)
FirstDeclaredSchemeDecides ==
  Transformed =>
    /\ outcome.value.authentication = AuthenticationFor(FirstScheme(SchemesOf(input.doc)))
    /\ outcome.value.authentication.type \in {"bearer", "apiKey"}

\* s ends with suffix
EndsWith(s, suffix) ==
  Len(s) >= Len(suffix) /\ SubSeq(s, Len(s) - Len(suffix) + 1, Len(s)) = suffix

\* the methods of endpoints, each once, in the order of their first occurrence
MethodsOf(endpoints) == FirstOccurrences([i \in 1..Len(endpoints) |-> endpoints[i].method])

\* the number of endpoints with the method
CountOf(endpoints, method) == Cardinality({i \in 1..Len(endpoints) : endpoints[i].method = method})

\* "{count} {METHOD} endpoint" or, for a count above 1, "{count} {METHOD} endpoints"
ItemOf(count, method) ==
  ToString(count) \o " " \o method \o (IF count = 1 THEN " endpoint" ELSE " endpoints")

\* the items of all methods of endpoints, separated by ", "
ItemsOf(endpoints, methods) ==
  JoinWith([n \in 1..Len(methods) |-> ItemOf(CountOf(endpoints, methods[n]), methods[n])], ", ")

(***************************************************************************)
(* C15.  For every ParsedAPI, generateNaturalLanguageDescription lists one *)
(* item "{count} {METHOD} endpoint(s)" for each method among the           *)
(* endpoints, in the order of the first occurrence of the methods, where   *)
(* count is the number of endpoints of the method and the noun is          *)
(* "endpoint" for a count of 1 and "endpoints" above; for two GET and one  *)
(* POST endpoint, GET first, the text holds "2 GET endpoints, 1 POST       *)
(* endpoint".                                                              *)
(***************************************************************************)
OperationsListed ==
  desc.said =>
    EndsWith(desc.text,
             "Available operations include: "
             \o ItemsOf(outcome.value.endpoints, MethodsOf(outcome.value.endpoints)) \o ".")

\* the example: a GET, a POST and another GET endpoint were described
TwoGetOnePost ==
  /\ desc.said
  /\ Transformed
  /\ Len(outcome.value.endpoints) = 3
  /\ outcome.value.endpoints[1].method = "GET"
  /\ outcome.value.endpoints[2].method = "POST"
  /\ outcome.value.endpoints[3].method = "GET"
  /\ includes(desc.text, "2 GET endpoints, 1 POST endpoint.")

(***************************************************************************)
(* C16.  For every input taken for a bare URL, analyzeAPI returns the name *)
(* "Custom API", a baseUrl that is the input string as given, exactly one  *)
(* endpoint, with method GET, path "/", no parameters and a single         *)
(* response with statusCode 200, the authentication apiKey without         *)
(* location and name, and the capabilities ["General API operations"].     *)
(***************************************************************************)
PlaceholderForURL ==
  Called /\ strategy = "url" =>
    /\ outcome.state = "fulfilled"
    /\ outcome.value.name = JStr("Custom API")
    /\ outcome.value.baseUrl = JStr(InputChars)
    /\ Len(outcome.value.endpoints) = 1
    /\ outcome.value.endpoints[1].method = "GET"
    /\ outcome.value.endpoints[1].path = "/"
    /\ outcome.value.endpoints[1].parameters = <<>>
    /\ Len(outcome.value.endpoints[1].responses) = 1
    /\ outcome.value.endpoints[1].responses[1].statusCode = JNum(200)
    /\ outcome.value.authentication = [type |-> "apiKey"]
    /\ outcome.value.capabilities = <<"General API operations">>

\* a URL with a space after it got a placeholder whose baseUrl has the space
SpaceKeptInBaseUrl ==
  /\ Called
  /\ strategy = "url"
  /\ InputChars = "https://hello "
  /\ outcome.value.baseUrl = JStr("https://hello ")

(***************************************************************************)
(* C17.  As stated: on all three paths, the catalog records, the           *)
(* transform of a description and the URL placeholder, the capabilities    *)
(* of the ParsedAPI that analyzeAPI returns are what the derivation rule   *)
(* gives for the endpoints of that same ParsedAPI: "Manage {tag}" for each *)
(* tag and one method label for each endpoint, without repetitions.        *)
(***************************************************************************)
CapabilitiesDerivedOnAllPaths ==
  Called /\ outcome.state = "fulfilled" =>
    outcome.value.capabilities = FirstOccurrences(AllAdditions(outcome.value.endpoints))

\* the five values of APIEndpoint.method
Methods == {"GET", "POST", "PUT", "DELETE", "PATCH"}

(***************************************************************************)
(* C18.  Every endpoint of every ParsedAPI that analyzeAPI returns has a   *)
(* method that is one of GET, POST, PUT, DELETE, PATCH, in capitals,       *)
(* whatever keys, in whatever case, the path items of the input hold.      *)
(***************************************************************************)
MethodAmongFive ==
  Called /\ outcome.state = "fulfilled" =>
    \A i \in 1..Len(outcome.value.endpoints) : outcome.value.endpoints[i].method \in Methods

\* paths has one path item, with the keys Post and patch
PostBeforePatch(paths) ==
  /\ Len(paths) = 1
  /\ Len(ObjectEntries(paths[1].v)) = 2
  /\ KeyAt(paths, <<1, 1>>) = "Post"
  /\ KeyAt(paths, <<1, 2>>) = "patch"

\* such a description gave the one endpoint PATCH
MixedCaseKeyDropped ==
  /\ Called
  /\ Transformed
  /\ Len(outcome.value.endpoints) = 1
  /\ outcome.value.endpoints[1].method = "PATCH"
  /\ PostBeforePatch(DocPaths)

\* the entries of a member of a document in the order of its text, given its
\* syntax tree
DeclaredEntries(tree) == IF tree.t = "obj" THEN tree.e ELSE ObjectEntries(tree)

\* responses holds one response for each of declared, in that order, whose
\* statusCode is an integer, the one the key reads as
ResponsesFollow(responses, declared) ==
  /\ Len(responses) = Len(declared)
  /\ \A k \in 1..Len(declared) :
        /\ responses[k].statusCode.t = "num"
        /\ responses[k].statusCode = parseInt(declared[k].k)

\* the above for every kept pair of paths
ResponsesOf(endpoints, paths, tree) ==
  LET pairs == KeptPairs(paths)
  IN Len(endpoints) = Cardinality(pairs)
     /\ \A q \in pairs :
           ResponsesFollow(endpoints[Rank(pairs, q)].responses,
                           DeclaredEntries(Or(Get(Get(Get(Get(tree, "paths"), paths[q[1]].k),
                                                      KeyAt(paths, q)), "responses"),
                                              JObj(<<>>))))

(***************************************************************************)
(* C19.  As stated: for every operation of an accepted description, each   *)
(* key of its responses map becomes exactly one APIResponse, in the order  *)
(* in which the document declares the keys, and the statusCode of that     *)
(* APIResponse is an integer, the one the key reads as, for keys such as   *)
(* default and 2XX too.                                                    *)
(***************************************************************************)
ResponsePerDeclaredKey == Transformed => ResponsesOf(outcome.value.endpoints, DocPaths, input.doc)

\* the parameters an operation declares: none when it has no such array
DeclaredParameters(operation) ==
  IF Get(operation, "parameters").t = "arr" THEN Get(operation, "parameters").a ELSE <<>>

\* parameter has the name and the in of declaration as name and location,
\* and the defaults for what declaration omits
ParameterFollows(parameter, declaration) ==
  /\ parameter.name = Get(declaration, "name")
  /\ parameter.location = Get(declaration, "in")
  /\ ~HasOwn(declaration, "type") => parameter.type = JStr("string")
  /\ ~HasOwn(declaration, "required") => parameter.required = JBool(FALSE)
  /\ ~HasOwn(declaration, "description") => parameter.description = JStr("")

\* parameters begins with one parameter for each of declared, in that order,
\* and holds added more beyond them
DeclaredParametersFollow(parameters, declared, added) ==
  /\ Len(parameters) = Len(declared) + added
  /\ \A k \in 1..Len(declared) : ParameterFollows(parameters[k], declared[k])

\* the above for every kept pair of paths, where what is added is one
\* parameter for each property of the request body schema
DeclaredParametersOf(endpoints, paths) ==
  LET pairs == KeptPairs(paths)
  IN Len(endpoints) = Cardinality(pairs)
     /\ \A q \in pairs :
           DeclaredParametersFollow(
             endpoints[Rank(pairs, q)].parameters,
             DeclaredParameters(OperationAt(paths, q)),
             IF Truthy(SchemaOf(OperationAt(paths, q)))
             THEN Len(ObjectEntries(Or(Get(SchemaOf(OperationAt(paths, q)), "properties"),
                                       JObj(<<>>))))
             ELSE 0)

(***************************************************************************)
(* C20.  For every operation of an accepted description, the parameters   *)
(* it declares become APIParameter entries one for one and in order, with  *)
(* the same name and with the declared in as location; type is "string",   *)
(* required is false and description is "" when the declaration omits      *)
(* them.                                                                   *)
(***************************************************************************)
DeclaredParameterPerEntry == Transformed => DeclaredParametersOf(outcome.value.endpoints, DocPaths)

\* an operation that declares id in the path, with nothing more, and limit
\* in the query, in full, gave these two parameters
DefaultsForOmitted ==
  /\ Called
  /\ Transformed
  /\ Len(outcome.value.endpoints) = 1
  /\ Len(outcome.value.endpoints[1].parameters) = 2
  /\ outcome.value.endpoints[1].parameters[1] =
       [name |-> JStr("id"), type |-> JStr("string"), required |-> JBool(FALSE),
        description |-> JStr(""), location |-> JStr("path"), example |-> JUndef]
  /\ outcome.value.endpoints[1].parameters[2].name = JStr("limit")
  /\ outcome.value.endpoints[1].parameters[2].location = JStr("query")
  /\ outcome.value.endpoints[1].parameters[2].type = JStr("integer")
  /\ outcome.value.endpoints[1].parameters[2].required = JBool(TRUE)

\* the vendor the priority stripe, shopify, slack gives for a lower-cased
\* input in which the short names are looked for
ByPriority(lowered) ==
  IF includes(lowered, "stripe") THEN "stripe"
  ELSE IF includes(lowered, "shopify") THEN "shopify"
  ELSE "slack"

(***************************************************************************)
(* C21.  An input in which signatures of more than one vendor occur gets   *)
(* the Stripe record if "stripe" occurs in it, else the Shopify record if  *)
(* "shopify" occurs, else the Slack record; where in the input the         *)
(* signatures stand plays no part, and capitals match as small letters.    *)
(***************************************************************************)
PriorityAmongVendors ==
  Called /\ Cardinality(VendorsNamed) > 1 =>
    ReturnedRecord(ByPriority(toLowerCase(InputChars)))

\* an input with slack first and Stripe, with a capital, after it got the
\* Stripe record
StripeAfterSlack ==
  /\ Called
  /\ InputChars = "slackStripe"
  /\ ReturnedRecord("stripe")

\* the properties of the application/json request body schema of an
\* operation, as entries: none when it has no such schema; in the order of
\* the text for a syntax tree, in the order of Object.entries for a value
BodyProperties(operation) ==
  IF Truthy(SchemaOf(operation))
  THEN DeclaredEntries(Or(Get(SchemaOf(operation), "properties"), JObj(<<>>)))
  ELSE <<>>

\* parameters is one parameter for each of declared, in that order, and
\* after them one body parameter for each of props, in that order
ParametersListed(parameters, declared, props) ==
  /\ Len(parameters) = Len(declared) + Len(props)
  /\ \A k \in 1..Len(declared) : parameters[k].name = Get(declared[k], "name")
  /\ \A k \in 1..Len(props) :
        /\ parameters[Len(declared) + k].name = JStr(props[k].k)
        /\ parameters[Len(declared) + k].location = JStr("body")

\* the above for every kept pair of paths, with the declared parameters and
\* the body properties read from the operation of the pair in description
ParametersListedOf(endpoints, paths, description) ==
  LET pairs == KeptPairs(paths)
  IN Len(endpoints) = Cardinality(pairs)
     /\ \A q \in pairs :
           ParametersListed(
             endpoints[Rank(pairs, q)].parameters,
             DeclaredParameters(Get(Get(Get(description, "paths"), paths[q[1]].k),
                                    KeyAt(paths, q))),
             BodyProperties(Get(Get(Get(description, "paths"), paths[q[1]].k),
                                KeyAt(paths, q))))

(***************************************************************************)
(* C22.  As stated: for every endpoint the transform builds, parameters is *)
(* the declared parameters in the order of their declaration and then the  *)
(* properties of the application/json request body schema in the order of  *)
(* their declaration in the document, so that its length is the number of  *)
(* the former plus the number of the latter; a request body without an     *)
(* application/json entry or without a schema adds none.                   *)
(***************************************************************************)
DeclaredThenBodyAsDeclared ==
  Transformed => ParametersListedOf(outcome.value.endpoints, DocPaths, input.doc)

\* C22, amended: for every endpoint the transform builds, parameters is the
\* declared parameters in the order of their declaration and then the
\* properties of the application/json request body schema in the order in
\* which Object.entries gives them, which is integer-like names first, in
\* ascending order, and then the other names in the order of the document;
\* its length is the number of the former plus the number of the latter, and
\* a request body without an application/json entry or without a schema
\* adds none
DeclaredThenBodyAsEnumerated ==
  Transformed => ParametersListedOf(outcome.value.endpoints, DocPaths, InputValue)

\* a schema that declares the property b and then the property 1, under two
\* declared parameters, gave the parameters id, limit, 1, b
IndexNamedPropertyFirst ==
  /\ Called
  /\ Transformed
  /\ Len(outcome.value.endpoints) = 1
  /\ Len(outcome.value.endpoints[1].parameters) = 4
  /\ outcome.value.endpoints[1].parameters[1].name = JStr("id")
  /\ outcome.value.endpoints[1].parameters[2].name = JStr("limit")
  /\ outcome.value.endpoints[1].parameters[3].name = JStr("1")
  /\ outcome.value.endpoints[1].parameters[4].name = JStr("b")

\* C23. In the builder page a plan is shown only with an analysis: agentPlan
\* is non-null only if parsedAPI is non-null; agentPlan leaves null only at the
\* end of a run of handleGenerateAgent that started with parsedAPI set; and
\* parsedAPI, once set, is never null again.
PlanOnlyWithAnalysis ==
  /\ [](agentPlan # JNull => parsedAPI # JNull)
  /\ [][agentPlan = JNull /\ agentPlan' # JNull
          => /\ generation.pc = "planning"
             /\ generation'.pc = "ended"
             /\ generation.analyzed]_vars
  /\ [][parsedAPI # JNull => parsedAPI' # JNull]_vars

\* a plan was generated and its workflow edited, and a later analysis threw
EditedPlanAfterFailedAnalysis ==
  /\ agentPlan # JNull
  /\ agentPlan.workflow = "edited"
  /\ generation.pc = "ended"
  /\ analysis.pc = "ended"
  /\ analysis.outcome.state = "rejected"
  /\ parsedAPI # JNull

\* C24. In the builder page every run of handleAnalyzeAPI starts with the
\* endpoint or the selection non-empty, holds isAnalyzing true while it waits
\* and ends with isAnalyzing false, whether analyzeAPI fulfilled or threw; a
\* run in which analyzeAPI threw leaves parsedAPI as it was when the run
\* started, and its last step changes no state of the page but isAnalyzing.
AnalysisRunEnds ==
  /\ [](analysis.pc \in {"adopting", "settled"}
          => isAnalyzing /\ analysis.input # TextInput(""))
  /\ [](analysis.pc \in {"idle", "ended"} => ~isAnalyzing)
  /\ (analysis.pc \in {"adopting", "settled"}) ~> (analysis.pc = "ended" /\ ~isAnalyzing)
  /\ [](analysis.pc = "ended" /\ analysis.outcome.state = "rejected"
          => parsedAPI = analysis.before)
  /\ [][analysis.pc = "settled" /\ analysis.outcome.state = "rejected"
          /\ analysis'.pc = "ended"
          => UNCHANGED <<apiEndpoint, naturalLanguagePrompt, parsedAPI, agentPlan,
                         isGenerating, selectedAPI>>]_vars

\* an analysis is shown, and a later run on an unrecognized endpoint has ended
FailedRunKeptAnalysis ==
  /\ analysis.pc = "ended"
  /\ analysis.input = TextInput("hello")
  /\ analysis.outcome.state = "rejected"
  /\ analysis.before # JNull
  /\ parsedAPI = analysis.before
  /\ ~isAnalyzing

\* C25. In the builder page, once a popular-API button has been clicked
\* selectedAPI is the id of a popular API for good, and every run of
\* handleAnalyzeAPI that starts afterwards passes that id to analyzeAPI,
\* whatever the endpoint field holds; a run passes the text of the endpoint
\* field only while no button has been clicked.
SelectionOutlivesEdits ==
  /\ [](clicked <=> selectedAPI # "")
  /\ [](clicked => \E k \in DOMAIN popularAPIs : selectedAPI = popularAPIs[k].id)
  /\ [][clicked => clicked' /\ selectedAPI' # ""]_vars
  /\ [][~isAnalyzing /\ isAnalyzing'
          => analysis'.input = IF clicked THEN TextInput(selectedAPI) ELSE apiEndpoint]_vars

\* Slack was selected, the endpoint was then edited to a description, and the
\* analysis shown is the Slack record
EditedEndpointIgnored ==
  /\ clicked
  /\ selectedAPI = "slack"
  /\ apiEndpoint.form = "json"
  /\ analysis.pc = "ended"
  /\ analysis.input = TextInput("slack")
  /\ parsedAPI = POPULAR_APIS.slack

\* C26. In the sign-in page a run of handleSignIn that failed (the response
\* was not ok, the request failed, or the body did not parse) ends with the
\* access token in localStorage, the dispatch of 'auth-changed' and the path
\* of the router as they were when it started, with an error that is not
\* empty and with loading false; every run ends, and ends with loading false.
FailedSignInLeavesNoSession ==
  /\ [](attempt.pc = "ended" /\ attempt.failed
          => /\ accessToken = attempt.started.token
             /\ authChanged = attempt.started.dispatched
             /\ pathname = attempt.started.path
             /\ pathname # "/dashboard"
             /\ Truthy(signInError)
             /\ ~loading)
  /\ [](attempt.pc = "ended" => ~loading)
  /\ (attempt.pc \in {"fetching", "parsing"}) ~> (attempt.pc = "ended" /\ ~loading)

\* in a browser that holds the token t2 of an earlier sign-in, a response
\* that is not ok and carries both an error and a session with token t1 has
\* ended the run
RefusedResponseWithSession ==
  /\ attempt.pc = "ended"
  /\ attempt.failed
  /\ attempt.started.token = "t2"
  /\ accessToken = "t2"
  /\ signInError = JStr("Email not confirmed")
  /\ pathname = "/signin"
  /\ ~loading

=============================================================================
